---- MODULE Spec2Model ----
(***************************************************************************)
(* A model of the audio summary pipeline of trendradar                     *)
(* (src/trendradar/audio/pipeline.py).                                     *)
(*                                                                         *)
(* Python strings are sequences of one-character strings.  The alphabet    *)
(* has letters, the space, the tab (whitespace and control character) and  *)
(* "^", which stands for a control character that is not whitespace        *)
(* (\x01).  Python's None is the record None.  Indices of the code are     *)
(* 0-based; the sequences here are 1-based, so the segment at position i   *)
(* has the id i - 1.                                                       *)
(***************************************************************************)
EXTENDS Integers, Sequences, FiniteSets, TLC

VARIABLES
    input,      \* a direct call of one function: its arguments
    output,     \* and how it ended
    pc,         \* where maybe_generate_audio stands
    cfg,        \* config["AUDIO"] of the current run
    fs,         \* the files of the output and the public directory
    pre,        \* fs as the current run found it
    now,        \* the wall clock, in hours
    runs,       \* calls of maybe_generate_audio so far
    session,    \* the requests.Session of the current run
    result,     \* how the current run ended
    logs,       \* lines maybe_generate_audio itself printed in the current run
    trace,      \* stages the current run started, in order
    calls,      \* network, cluster LLM, dedupe LLM and TTS requests of the current run
    st          \* the local variables of the current run

pipeline == <<pc, cfg, fs, pre, now, runs, session, result, logs, trace, calls, st>>

vars == <<input, output, pipeline>>

(***************************************************************************)
(* Bounds of the model.                                                    *)
(***************************************************************************)
MaxSummaries == 3
MaxScore == 1
MaxSegments == 4
MaxIds == 2
MaxItems == 2
MaxRuns == 2
MaxTime == 1
MaxRanked == 4
MaxTitles == 3
MaxClusters == 2

(***************************************************************************)
(* Values and strings.                                                     *)
(***************************************************************************)
None == [none |-> TRUE]

Pending == [pending |-> TRUE]

\* how a call ended: with a value, or with an exception
Returned(v) == [exc |-> "none", value |-> v]

Raised(e) == [exc |-> e]

\* a local variable that is not yet bound, and one bound to v
Unset == [unset |-> TRUE]

Some(v) == [v |-> v]

NoFile == [run |-> 0, content |-> "none"]

File(run, content) == [run |-> run, content |-> content]

NoCalls == [net |-> 0, llm |-> 0, dedupe |-> 0, tts |-> 0]

FreshLocals ==
    [items |-> Unset, clusters |-> Unset, summaries |-> Unset, segments |-> Unset,
     asked |-> Unset, audio |-> Unset, succeeded |-> Unset, submitted |-> Unset,
     probed |-> Unset,
     segment_files |-> Unset, durations |-> Unset, chapters |-> Unset,
     assembled |-> Unset, raised |-> "none"]

NoConfig == [none |-> TRUE]

\* before the first call of maybe_generate_audio
PipelineIdle ==
    /\ pc = "idle"
    /\ cfg = NoConfig
    /\ fs = [pub_audio |-> NoFile, pub_chapters |-> NoFile, pub_transcript |-> NoFile,
             out_audio |-> NoFile, out_chapters |-> NoFile, out_transcript |-> NoFile,
             mtime |-> 0]
    /\ pre = fs
    /\ now = 0
    /\ runs = 0
    /\ session = "none"
    /\ result = Pending
    /\ logs = 0
    /\ trace = <<>>
    /\ calls = NoCalls
    /\ st = FreshLocals

Repeat(c, n) == [i \in 1..n |-> c]

Max(a, b) == IF a >= b THEN a ELSE b

Min(a, b) == IF a <= b THEN a ELSE b

Range(s) == {s[i] : i \in 1..Len(s)}

\* str.isspace for the alphabet of the model
IsSpace(c) == c \in {" ", "\t"}

\* the class [\x00-\x1f\x7f] of _sanitize_chinese_text
IsControl(c) == c \in {"\t", "^"}

RECURSIVE LStrip(_)
LStrip(s) ==
    IF s # <<>> /\ IsSpace(Head(s)) THEN LStrip(Tail(s)) ELSE s

RECURSIVE RStrip(_)
RStrip(s) ==
    IF s # <<>> /\ IsSpace(s[Len(s)]) THEN RStrip(SubSeq(s, 1, Len(s) - 1)) ELSE s

\* str.strip()
Strip(s) == RStrip(LStrip(s))

\* re.sub(r"[\x00-\x1f\x7f]", " ", text)
ControlToSpace(s) == [i \in 1..Len(s) |-> IF IsControl(s[i]) THEN " " ELSE s[i]]

\* re.sub(r"\s+", " ", text)
RECURSIVE CollapseSpace(_)
CollapseSpace(s) ==
    IF s = <<>> THEN <<>>
    ELSE IF IsSpace(Head(s))
         THEN <<" ">> \o CollapseSpace(LStrip(s))
         ELSE <<Head(s)>> \o CollapseSpace(Tail(s))

_sanitize_chinese_text(text) == Strip(CollapseSpace(ControlToSpace(text)))

(***************************************************************************)
(* _build_script_segments                                                  *)
(***************************************************************************)
\* the fixed sentences of the script, by their lengths in characters
INTRO == Repeat("i", 12)

OUTRO == Repeat("o", 31)

DEFAULT_CHAPTER_TITLE == Repeat("e", 4)

IntroSegment == [text |-> INTRO, chapter |-> None]

OutroSegment == [text |-> OUTRO, chapter |-> None]

RECURSIVE InsertDescendingUnstable(_, _)
InsertDescendingUnstable(s, sorted) ==
    IF sorted = <<>> THEN <<s>>
    ELSE IF Head(sorted).priority_score > s.priority_score
         THEN <<Head(sorted)>> \o InsertDescendingUnstable(s, Tail(sorted))
         ELSE <<s>> \o sorted

\* list.sort is stable: an element goes after every element that does not
\* compare below it, and reverse=True keeps the order of equal elements
RECURSIVE InsertDescending(_, _)
InsertDescending(s, sorted) ==
    IF sorted = <<>> THEN <<s>>
    ELSE IF Head(sorted).priority_score >= s.priority_score
         THEN <<Head(sorted)>> \o InsertDescending(s, Tail(sorted))
         ELSE <<s>> \o sorted

RECURSIVE SortByPriority(_)
SortByPriority(summaries) ==
    IF summaries = <<>> THEN <<>>
    ELSE InsertDescending(summaries[Len(summaries)],
                          SortByPriority(SubSeq(summaries, 1, Len(summaries) - 1)))

\* max(1, math.ceil(n * 0.3))
HighCountOne(n) == 1

\* max(1, math.ceil(n * 0.3))
HighCount(n) == Max(1, (3 * n + 9) \div 10)

\* Python's  a or b
Or(a, b) == IF a # <<>> THEN a ELSE b

SummaryText(item, is_high) ==
    LET first == IF is_high THEN item.summary ELSE item.short_summary
    IN  IF first # <<>> THEN first
        ELSE Or(item.summary, Or(item.short_summary, item.title))

ChapterOnlyWithTitle(item) ==
    IF item.title = <<>> THEN None
    ELSE [title |-> item.title, sources |-> item.sources]

Chapter(item) ==
    [title |-> Or(item.title, DEFAULT_CHAPTER_TITLE), sources |-> item.sources]

StorySegment(item, is_high) ==
    [text |-> SummaryText(item, is_high), chapter |-> Chapter(item)]

RECURSIVE StorySegments(_, _, _)
StorySegments(sorted, idx, high_count) ==
    IF idx > Len(sorted) THEN <<>>
    ELSE LET is_high == (idx - 1) < high_count
             rest == StorySegments(sorted, idx + 1, high_count)
         IN  IF SummaryText(sorted[idx], is_high) = <<>> THEN rest
             ELSE <<StorySegment(sorted[idx], is_high)>> \o rest

_build_script_segments(summaries) ==
    IF summaries = <<>> THEN <<>>
    ELSE LET summaries_sorted == SortByPriority(summaries)
             high_count == HighCount(Len(summaries_sorted))
         IN  <<IntroSegment>> \o StorySegments(summaries_sorted, 1, high_count)
             \o <<OutroSegment>>

(***************************************************************************)
(* Inputs of the script builder.                                           *)
(***************************************************************************)
SeqsUpTo(S, n) == UNION {[1..k -> S] : k \in 0..n}

Titles == {<<>>, <<"A">>}

Summaries ==
    [title : Titles, summary : {<<>>, <<"L">>}, short_summary : {<<>>, <<"s">>},
     priority_score : 0..MaxScore, sources : {<<>>}]

ScriptInputs == [fn : {"build"}, summaries : SeqsUpTo(Summaries, MaxSummaries)]

InitScript == input \in ScriptInputs /\ output = Pending /\ PipelineIdle

BuildCall ==
    /\ input.fn = "build"
    /\ output = Pending
    /\ output' = Returned(_build_script_segments(input.summaries))
    /\ UNCHANGED <<input, pipeline>>

NextScript == BuildCall

SpecScript == InitScript /\ [][NextScript]_vars

(***************************************************************************)
(* C7: for every non-empty summaries list the script starts with the intro *)
(* and ends with the outro, both with chapter None, and every segment      *)
(* between them carries a chapter descriptor: exactly two segments, the    *)
(* first and the last, have no chapter.                                    *)
(***************************************************************************)
C7_IntroOutroFrame ==
    (input.fn = "build" /\ output # Pending /\ input.summaries # <<>>) =>
        /\ Len(output.value) >= 2
        /\ output.value[1] = [text |-> INTRO, chapter |-> None]
        /\ output.value[Len(output.value)] = [text |-> OUTRO, chapter |-> None]
        /\ \A i \in 2..(Len(output.value) - 1) :
              /\ output.value[i].chapter # None
              /\ DOMAIN output.value[i].chapter = {"title", "sources"}
        /\ Cardinality({i \in 1..Len(output.value) : output.value[i].chapter = None}) = 2

\* three summaries, one of them without any text and so skipped
C7_Witness ==
    /\ input.fn = "build" /\ output # Pending
    /\ Len(input.summaries) = 3
    /\ \E i \in 1..3 : input.summaries[i].title = <<>>
    /\ Len(output.value) = 4

(***************************************************************************)
(* C10: the story segments follow priority_score descending, and summaries *)
(* of equal priority_score keep their order of the input list.             *)
(***************************************************************************)
HasText(s) == s.summary # <<>> \/ s.short_summary # <<>> \/ s.title # <<>>

\* segment seg may have been built from summary s
BuiltFrom(seg, s) ==
    /\ seg.chapter # None
    /\ seg.chapter.title = (IF s.title # <<>> THEN s.title ELSE DEFAULT_CHAPTER_TITLE)
    /\ seg.chapter.sources = s.sources
    /\ seg.text # <<>>
    /\ seg.text \in {s.summary, s.short_summary, s.title}

C10_PriorityOrderStable ==
    (input.fn = "build" /\ output # Pending /\ input.summaries # <<>>) =>
        LET sums == input.summaries
            k == Len(output.value) - 2
            kept == {i \in 1..Len(sums) : HasText(sums[i])}
        IN  \E f \in [1..k -> 1..Len(sums)] :
              /\ {f[j] : j \in 1..k} = kept
              /\ \A j \in 1..k : BuiltFrom(output.value[j + 1], sums[f[j]])
              /\ \A j, m \in 1..k :
                    j < m =>
                      \/ sums[f[j]].priority_score > sums[f[m]].priority_score
                      \/ /\ sums[f[j]].priority_score = sums[f[m]].priority_score
                         /\ f[j] < f[m]

\* scores low, high, low: the two tied summaries differ and both are spoken
C10_Witness ==
    /\ input.fn = "build" /\ output # Pending
    /\ Len(input.summaries) = 3
    /\ input.summaries[1].priority_score < input.summaries[2].priority_score
    /\ input.summaries[3].priority_score = input.summaries[1].priority_score
    /\ input.summaries[1].title # input.summaries[3].title
    /\ Len(output.value) = 5
    /\ output.value[2].chapter.title = input.summaries[2].title

(***************************************************************************)
(* _build_chapters.  Times are integers in units of 1/6000 second, in      *)
(* which both 2.0 seconds and len(text) / 6.0 seconds are whole numbers.   *)
(***************************************************************************)
Second == 6 * 1000

Hundredth == Second \div 100

\* round(x, 2): to the nearest hundredth of a second, ties to the even one
Round2(t) ==
    LET q == t \div Hundredth
        r == t % Hundredth
    IN  IF 2 * r < Hundredth THEN q * Hundredth
        ELSE IF 2 * r > Hundredth THEN (q + 1) * Hundredth
        ELSE IF q % 2 = 0 THEN q * Hundredth ELSE (q + 1) * Hundredth

CursorAfterOwnDuration(current, duration) == current + duration

\* the cursor a chapter is stamped with: read before the segment's own
\* duration is added
CursorAtChapter(current, duration) == current

RECURSIVE ChaptersFrom(_, _, _, _)
ChaptersFrom(segments, durations, i, current) ==
    \* zip(segments, durations) ends with the shorter of the two
    IF i > Min(Len(segments), Len(durations)) THEN <<>>
    ELSE LET chapter == segments[i].chapter
             rest == ChaptersFrom(segments, durations, i + 1, current + durations[i])
         IN  IF chapter # None
             THEN <<[title |-> chapter.title,
                     start |-> Round2(CursorAtChapter(current, durations[i])),
                     sources |-> chapter.sources]>> \o rest
             ELSE rest

_build_chapters(segments, durations) == ChaptersFrom(segments, durations, 1, 0)

(***************************************************************************)
(* Inputs of the chapter builder.                                          *)
(***************************************************************************)
\* 0, 2 and 2.334 seconds: durations whose sums are never a tie of
\* round(x, 2), which binary floating point would decide
Durations == {0, 2 * Second, 14004}

ChapterSegments ==
    {[text |-> <<"x">>, chapter |-> None],
     [text |-> <<"x">>, chapter |-> [title |-> <<"A">>, sources |-> <<>>]],
     [text |-> <<"x">>, chapter |-> [title |-> <<"B">>, sources |-> <<>>]]}

\* every duration comes from one segment: at least one, at most one for each
ChapterInputs ==
    {x \in [fn : {"chapters"}, segments : SeqsUpTo(ChapterSegments, MaxSegments),
            durations : SeqsUpTo(Durations, MaxSegments)] :
        Len(x.durations) >= 1 /\ Len(x.durations) <= Len(x.segments)}

InitChapters == input \in ChapterInputs /\ output = Pending /\ PipelineIdle

ChaptersCall ==
    /\ input.fn = "chapters"
    /\ output = Pending
    /\ output' = Returned(_build_chapters(input.segments, input.durations))
    /\ UNCHANGED <<input, pipeline>>

NextChapters == ChaptersCall

SpecChapters == InitChapters /\ [][NextChapters]_vars

RECURSIVE SumFirst(_, _)
SumFirst(s, n) == IF n = 0 THEN 0 ELSE s[n] + SumFirst(s, n - 1)

\* positions of the segments that carry a chapter descriptor, among the first n
Chaptered(segments, n) == {i \in 1..n : segments[i].chapter # None}

(***************************************************************************)
(* C8 as stated: one chapter for each segment that carries a chapter       *)
(* descriptor, in segment order, whose start equals the sum of the         *)
(* durations of all segments before it.                                    *)
(***************************************************************************)
C8_Original ==
    (input.fn = "chapters" /\ output # Pending) =>
        LET segs == input.segments
            durs == input.durations
            idx == Chaptered(segs, Len(segs))
        IN  /\ Len(output.value) = Cardinality(idx)
            /\ \A i \in idx :
                 LET k == Cardinality({j \in idx : j <= i})
                 IN  /\ output.value[k].title = segs[i].chapter.title
                     /\ output.value[k].start = SumFirst(durs, Min(i - 1, Len(durs)))

(***************************************************************************)
(* C8 as amended: one chapter for each segment that carries a chapter      *)
(* descriptor and has a duration paired with it (position at most          *)
(* len(durations)), in segment order, whose start is the sum of the        *)
(* durations of all segments before it rounded to 2 decimals; chapter      *)
(* starts are non-decreasing for non-negative durations, and the first     *)
(* chapter starts at the rounded cumulative duration of the segments       *)
(* before the first chaptered segment.                                     *)
(***************************************************************************)
IsRounded2(start, exact) ==
    /\ start % (Second \div 100) = 0
    /\ 2 * (start - exact) <= Second \div 100
    /\ 2 * (exact - start) <= Second \div 100

C8_ChapterStarts ==
    (input.fn = "chapters" /\ output # Pending) =>
        LET segs == input.segments
            durs == input.durations
            idx == Chaptered(segs, Min(Len(segs), Len(durs)))
        IN  /\ Len(output.value) = Cardinality(idx)
            /\ \A i \in idx :
                 LET k == Cardinality({j \in idx : j <= i})
                 IN  /\ output.value[k].title = segs[i].chapter.title
                     /\ output.value[k].sources = segs[i].chapter.sources
                     /\ IsRounded2(output.value[k].start, SumFirst(durs, i - 1))
            /\ \A k \in 1..(Len(output.value) - 1) : output.value[k].start <= output.value[k + 1].start
            /\ idx # {} =>
                 LET first == CHOOSE i \in idx : \A j \in idx : i <= j
                 IN  IsRounded2(output.value[1].start, SumFirst(durs, first - 1))

\* intro, two stories, outro, each with a duration: the second story starts
\* after the intro and the first story
C8_Witness ==
    /\ input.fn = "chapters" /\ output # Pending
    /\ Len(input.segments) = 4 /\ Len(input.durations) = 4
    /\ input.segments[1].chapter = None
    /\ input.segments[2].chapter # None
    /\ input.segments[3].chapter # None
    /\ input.durations[1] = 14004 /\ input.durations[2] = 2 * Second
    /\ Len(output.value) = 2
    /\ output.value[1].start = 13980
    /\ output.value[2].start = 25980

(***************************************************************************)
(* JSON values of an LLM reply, as json.loads returns them.                *)
(***************************************************************************)
Absent == [t |-> "absent"]

JNull == [t |-> "null"]

JInt(n) == [t |-> "int", n |-> n]

JStr(s) == [t |-> "str", s |-> s]

\* float("nan"), which json.loads reads from NaN
JNaN == [t |-> "nan"]

\* float("inf"), which json.loads reads from Infinity and from 1e400
JInf == [t |-> "inf"]

JList(l) == [t |-> "list", l |-> l]

JDict(id, text) == [t |-> "dict", id |-> id, text |-> text]

Digits == {"0", "1", "2", "3", "4", "5", "6", "7", "8", "9"}

DigitValue(c) ==
    CASE c = "0" -> 0 [] c = "1" -> 1 [] c = "2" -> 2 [] c = "3" -> 3
      [] c = "4" -> 4 [] c = "5" -> 5 [] c = "6" -> 6 [] c = "7" -> 7
      [] c = "8" -> 8 [] c = "9" -> 9

RECURSIVE DecimalValue(_)
DecimalValue(s) ==
    IF s = <<>> THEN 0
    ELSE 10 * DecimalValue(SubSeq(s, 1, Len(s) - 1)) + DigitValue(s[Len(s)])

\* Python's int(value): the integer, or the exception it raises
int(value) ==
    CASE value.t = "int" -> Returned(value.n)
      [] value.t = "str" ->
            LET d == Strip(value.s)
            IN  IF d # <<>> /\ Range(d) \subseteq Digits
                THEN Returned(DecimalValue(d))
                ELSE Raised("ValueError")
      [] value.t = "nan" -> Raised("ValueError")
      [] value.t = "inf" -> Raised("OverflowError")
      [] OTHER -> Raised("TypeError")

\* Python's truth value of a JSON value
Truthy(value) ==
    CASE value.t = "str" -> value.s # <<>>
      [] value.t = "int" -> value.n # 0
      [] value.t = "list" -> value.l # <<>>
      [] value.t \in {"absent", "null"} -> FALSE
      [] OTHER -> TRUE

(***************************************************************************)
(* _safe_json_from_text.  A reply text is a sequence of parts: prose       *)
(* without braces, a JSON object, or text in braces that is not JSON.  The *)
(* greedy pattern \{.*\} matches from the first brace to the last.         *)
(***************************************************************************)
Prose == [p |-> "prose"]

Braces == [p |-> "braces"]

Object(data) == [p |-> "object", data |-> data]

_safe_json_from_text(parts) ==
    LET braced == {i \in 1..Len(parts) : parts[i].p # "prose"}
    IN  IF braced = {} THEN None
        ELSE LET first == CHOOSE i \in braced : \A j \in braced : i <= j
                 last == CHOOSE i \in braced : \A j \in braced : j <= i
             IN  IF first = last /\ parts[first].p = "object"
                 THEN parts[first].data
                 ELSE None

(***************************************************************************)
(* _dedupe_transcript_segments                                             *)
(***************************************************************************)
FALLBACK_TEXT == Repeat("f", 16)

\* the exceptions the two try blocks around int() catch
CaughtByDedupe(e) == e \in {"TypeError", "ValueError"}

\* ids of the segments with non-empty stripped text, sent to the LLM
RECURSIVE DedupeItems(_, _)
DedupeItems(segments, i) ==
    IF i > Len(segments) THEN <<>>
    ELSE IF Strip(segments[i].text) = <<>> THEN DedupeItems(segments, i + 1)
         ELSE <<i - 1>> \o DedupeItems(segments, i + 1)

\* the loop over data["items"]: the ids in order and the rewritten texts as
\* (id, text) pairs, a later pair overriding an earlier one
RECURSIVE ItemsLoop(_, _, _, _)
ItemsLoop(items, i, keep_ids, rewrites) ==
    IF i > Len(items) THEN [exc |-> "none", keep_ids |-> keep_ids, rewrites |-> rewrites]
    ELSE LET item == items[i]
         IN  IF item.t # "dict" THEN ItemsLoop(items, i + 1, keep_ids, rewrites)
             ELSE LET kept == Append(keep_ids, item.id)
                  IN  IF ~Truthy(item.text) THEN ItemsLoop(items, i + 1, kept, rewrites)
                      ELSE LET id == int(item.id)
                           IN  IF id.exc = "none"
                               THEN ItemsLoop(items, i + 1, kept,
                                              Append(rewrites, <<id.value, item.text.s>>))
                               ELSE IF CaughtByDedupe(id.exc)
                               THEN ItemsLoop(items, i + 1, kept, rewrites)
                               ELSE [exc |-> id.exc, keep_ids |-> kept, rewrites |-> rewrites]

\* keep_ids and rewrite_map as read from the reply
ReadKeep(data) ==
    IF data.keep_ids.t = "list"
    THEN [exc |-> "none", keep_ids |-> data.keep_ids.l, rewrites |-> <<>>]
    ELSE IF data.items.t = "list"
    THEN ItemsLoop(data.items.l, 1, <<>>, <<>>)
    ELSE [exc |-> "none", keep_ids |-> <<>>, rewrites |-> <<>>]

RECURSIVE KeepSet(_, _, _)
KeepSet(keep_ids, i, keep_set) ==
    IF i > Len(keep_ids) THEN [exc |-> "none", set |-> keep_set]
    ELSE LET id == int(keep_ids[i])
         IN  IF id.exc = "none" THEN KeepSet(keep_ids, i + 1, keep_set \cup {id.value})
             ELSE IF CaughtByDedupe(id.exc) THEN KeepSet(keep_ids, i + 1, keep_set)
             ELSE [exc |-> id.exc, set |-> keep_set]

InRewrites(rewrites, id) == \E k \in 1..Len(rewrites) : rewrites[k][1] = id

Rewrite(rewrites, id) ==
    LET k == CHOOSE k \in 1..Len(rewrites) :
                 /\ rewrites[k][1] = id
                 /\ \A m \in (k + 1)..Len(rewrites) : rewrites[m][1] # id
    IN  rewrites[k][2]

UpdatedSegmentKeepingEmpty(segment, id, rewrites) ==
    LET source == IF InRewrites(rewrites, id) THEN Rewrite(rewrites, id) ELSE segment.text
    IN  [segment EXCEPT !.text = _sanitize_chinese_text(source)]

UpdatedSegment(segment, id, rewrites) ==
    LET source == IF InRewrites(rewrites, id) THEN Rewrite(rewrites, id) ELSE segment.text
        updated_text == _sanitize_chinese_text(source)
    IN  [segment EXCEPT !.text = IF updated_text = <<>> THEN FALLBACK_TEXT ELSE updated_text]

RECURSIVE Filtered(_, _, _, _)
Filtered(segments, i, keep_set, rewrites) ==
    IF i > Len(segments) THEN <<>>
    ELSE IF (i - 1) \notin keep_set THEN Filtered(segments, i + 1, keep_set, rewrites)
         ELSE <<UpdatedSegment(segments[i], i - 1, rewrites)>>
              \o Filtered(segments, i + 1, keep_set, rewrites)

\* config: DEDUP_ENABLED and whether google-genai can be imported;
\* reply: what generate_content does
_dedupe_transcript_segments(segments, enabled, genai, reply) ==
    IF ~enabled THEN Returned(segments)
    ELSE IF Len(segments) < 3 THEN Returned(segments)
    ELSE IF Len(DedupeItems(segments, 1)) < 3 THEN Returned(segments)
    ELSE IF ~genai THEN Returned(segments)
    ELSE IF reply.kind = "raise" THEN Returned(segments)
    ELSE LET data == _safe_json_from_text(reply.parts)
         IN  IF data = None \/ data = [keep_ids |-> Absent, items |-> Absent, other |-> FALSE]
             THEN Returned(segments)
             ELSE LET read == ReadKeep(data)
                      kept == KeepSet(read.keep_ids, 1, {})
                      filtered == Filtered(segments, 1, kept.set, read.rewrites)
                  IN  IF read.exc # "none" THEN Raised(read.exc)
                      ELSE IF read.keep_ids = <<>> THEN Returned(segments)
                      ELSE IF kept.exc # "none" THEN Raised(kept.exc)
                      ELSE IF kept.set = {} THEN Returned(segments)
                      ELSE IF filtered = <<>> THEN Returned(segments)
                      ELSE Returned(filtered)

(***************************************************************************)
(* Inputs of the deduplicator.                                             *)
(***************************************************************************)
DedupeSegmentKinds ==
    {[text |-> <<>>, chapter |-> None],
     [text |-> <<"a">>, chapter |-> [title |-> <<"A">>, sources |-> <<>>]],
     [text |-> <<"^">>, chapter |-> None],
     [text |-> <<"\t", "b", " ">>, chapter |-> None]}

NonEmptySeqsUpTo(S, n) == UNION {[1..k -> S] : k \in 1..n}

\* ids of a reply: in range, out of range, a numeric string, and values
\* int() raises TypeError, ValueError and OverflowError on
IdValues == {JInt(0), JInt(2), JInt(9), JStr(<<"1">>), JStr(<<"x">>), JNull, JInf}

ItemValues ==
    {JDict(id, text) : id \in {JInt(1), JStr(<<"x">>), JInf, Absent},
                       text \in {Absent, JStr(<<"b">>), JStr(<<"^">>)}}
    \cup {JInt(1)}

NotAList == JStr(<<"x">>)

ReplyData ==
    {[keep_ids |-> Absent, items |-> Absent, other |-> o] : o \in BOOLEAN}
    \cup {[keep_ids |-> k, items |-> Absent, other |-> FALSE] :
            k \in {NotAList, JList(<<>>)}
                  \cup {JList(l) : l \in NonEmptySeqsUpTo(IdValues, MaxIds)}}
    \cup {[keep_ids |-> k, items |-> i, other |-> FALSE] :
            k \in {Absent, NotAList},
            i \in {NotAList, JList(<<>>)}
                  \cup {JList(l) : l \in NonEmptySeqsUpTo(ItemValues, MaxIds)}}
    \cup {[keep_ids |-> JList(<<>>), items |-> JList(<<JDict(JInt(1), Absent)>>),
           other |-> FALSE]}

Replies ==
    {[kind |-> "raise"]}
    \cup {[kind |-> "text", parts |-> p] :
            p \in {<<>>, <<Prose>>, <<Braces>>, <<Prose, Braces>>}}
    \cup {[kind |-> "text", parts |-> <<Object(d)>>] : d \in ReplyData}
    \cup {[kind |-> "text", parts |-> <<Prose, Object(d), Prose>>] :
            d \in {[keep_ids |-> JList(<<JInt(0), JInt(2)>>), items |-> Absent,
                    other |-> FALSE]}}
    \cup {[kind |-> "text", parts |-> <<Object(d), Prose, Object(d)>>] :
            d \in {[keep_ids |-> JList(<<JInt(0), JInt(2)>>), items |-> Absent,
                    other |-> FALSE]}}

\* the switches are varied against one reply only
DedupeInputs ==
    {x \in [fn : {"dedupe"}, segments : SeqsUpTo(DedupeSegmentKinds, MaxSegments),
            enabled : BOOLEAN, genai : BOOLEAN, reply : Replies] :
        (~x.enabled \/ ~x.genai) =>
            x.reply = [kind |-> "text",
                       parts |-> <<Object([keep_ids |-> JList(<<JInt(0)>>),
                                           items |-> Absent, other |-> FALSE])>>]}

InitDedupe == input \in DedupeInputs /\ output = Pending /\ PipelineIdle

DedupeCall ==
    /\ input.fn = "dedupe"
    /\ output = Pending
    /\ output' = _dedupe_transcript_segments(input.segments, input.enabled,
                                             input.genai, input.reply)
    /\ UNCHANGED <<input, pipeline>>

NextDedupe == DedupeCall

SpecDedupe == InitDedupe /\ [][NextDedupe]_vars

(***************************************************************************)
(* C1: the deduplicator returns its input list unchanged whenever it is    *)
(* disabled, fewer than 3 segments have non-empty text, the LLM call       *)
(* raises, or the reply is malformed or missing: no parseable JSON object, *)
(* or an object without a non-empty keep_ids/items list that yields at     *)
(* least one usable integer id.                                            *)
(***************************************************************************)
\* the value is an integer, or text or a number that reads as one
UsableId(value) ==
    \/ value.t = "int"
    \/ value.t = "str" /\ Strip(value.s) # <<>> /\ Range(Strip(value.s)) \subseteq Digits

YieldsUsableId(data) ==
    \/ /\ data.keep_ids.t = "list"
       /\ \E i \in 1..Len(data.keep_ids.l) : UsableId(data.keep_ids.l[i])
    \/ /\ data.items.t = "list"
       /\ \E i \in 1..Len(data.items.l) :
            data.items.l[i].t = "dict" /\ UsableId(data.items.l[i].id)

MalformedReply(reply) ==
    \/ reply.kind = "raise"
    \/ /\ reply.kind = "text"
       /\ \/ \A i \in 1..Len(reply.parts) : reply.parts[i].p # "object"
          \/ Cardinality({i \in 1..Len(reply.parts) : reply.parts[i].p # "prose"}) > 1
          \/ \E i \in 1..Len(reply.parts) :
               reply.parts[i].p = "object" /\ ~YieldsUsableId(reply.parts[i].data)

NonEmptyTexts(segments) ==
    Cardinality({i \in 1..Len(segments) : Strip(segments[i].text) # <<>>})

C1_FailOpen ==
    (input.fn = "dedupe" /\ output # Pending) =>
        ((\/ ~input.enabled
          \/ NonEmptyTexts(input.segments) < 3
          \/ MalformedReply(input.reply))
            => output = Returned(input.segments))

(***************************************************************************)
(* _cluster_items and _cluster_by_fuzzy.  An item carries its title, a     *)
(* flag for its url, its source and the embedding the sentence model       *)
(* gives it: a vector of length 10 with integer coordinates.               *)
(***************************************************************************)
FUZZY_SIM_THRESHOLD == 90

\* EMBEDDING_SIM_THRESHOLD, in hundredths
EMBEDDING_SIM_THRESHOLD == 82

Lower(c) == CASE c = "A" -> "a" [] c = "B" -> "b" [] OTHER -> c

\* the class [a-z0-9一-鿿] of _normalize_title
IsTitleChar(c) == c \in {"a", "b"} \cup Digits

_normalize_title(title) ==
    LET lowered == [i \in 1..Len(title) |-> Lower(title[i])]
        cleaned == [i \in 1..Len(lowered) |->
                       IF IsTitleChar(lowered[i]) THEN lowered[i] ELSE " "]
    IN  Strip(CollapseSpace(cleaned))

\* length of a longest common subsequence
RECURSIVE LCS(_, _)
LCS(a, b) ==
    IF a = <<>> \/ b = <<>> THEN 0
    ELSE IF Head(a) = Head(b) THEN 1 + LCS(Tail(a), Tail(b))
         ELSE Max(LCS(Tail(a), b), LCS(a, Tail(b)))

\* rapidfuzz's fuzz.ratio(a, b) >= threshold: the normalized Indel
\* similarity 100 * 2 * LCS / (len(a) + len(b)), which is 100 for two
\* empty strings
RatioAtLeast(a, b, threshold) ==
    IF Len(a) + Len(b) = 0 THEN 100 >= threshold
    ELSE 200 * LCS(a, b) >= threshold * (Len(a) + Len(b))

LastMatch(clusters, normalized, threshold) ==
    LET hits == {k \in 1..Len(clusters) :
                    RatioAtLeast(normalized, clusters[k]._norm, threshold)}
    IN  IF hits = {} THEN 0 ELSE CHOOSE k \in hits : \A m \in hits : k >= m

\* position of the first cluster the title matches, or 0
FirstMatch(clusters, normalized, threshold) ==
    LET hits == {k \in 1..Len(clusters) :
                    RatioAtLeast(normalized, clusters[k]._norm, threshold)}
    IN  IF hits = {} THEN 0 ELSE CHOOSE k \in hits : \A m \in hits : k <= m

JoinedAsRepresentative(cluster, item, normalized) ==
    [items |-> Append(cluster.items, item), _norm |-> normalized]

\* cluster["items"].append(item): the representative stays
Joined(cluster, item, normalized) == [cluster EXCEPT !.items = Append(@, item)]

RECURSIVE FuzzyFrom(_, _, _, _)
FuzzyFrom(items, i, clusters, threshold) ==
    IF i > Len(items) THEN clusters
    ELSE LET normalized == _normalize_title(items[i].title)
             k == FirstMatch(clusters, normalized, threshold)
         IN  IF k # 0
             THEN FuzzyFrom(items, i + 1,
                            [clusters EXCEPT ![k] = Joined(@, items[i], normalized)],
                            threshold)
             ELSE FuzzyFrom(items, i + 1,
                            Append(clusters, [items |-> <<items[i]>>, _norm |-> normalized]),
                            threshold)

_cluster_by_fuzzy(items, threshold) == FuzzyFrom(items, 1, <<>>, threshold)

RECURSIVE VectorSum(_, _)
VectorSum(items, n) ==
    IF n = 0 THEN <<0, 0>>
    ELSE LET rest == VectorSum(items, n - 1)
         IN  <<rest[1] + items[n].embedding[1], rest[2] + items[n].embedding[2]>>

\* np.dot of the two centroids (the means of the members' embeddings)
\* is at least the threshold
CentroidsSimilar(a, b, threshold) ==
    LET sa == VectorSum(a.items, Len(a.items))
        sb == VectorSum(b.items, Len(b.items))
    IN  sa[1] * sb[1] + sa[2] * sb[2] >= threshold * Len(a.items) * Len(b.items)

FirstSimilar(merged, cluster, threshold) ==
    LET hits == {k \in 1..Len(merged) : CentroidsSimilar(cluster, merged[k], threshold)}
    IN  IF hits = {} THEN 0 ELSE CHOOSE k \in hits : \A m \in hits : k <= m

Prepended(clusters, cluster) == <<cluster>> \o clusters

\* merged_clusters.append(cluster)
Appended(clusters, cluster) == Append(clusters, cluster)

ExtendedLosing(target_items, items) == items

\* target["items"].extend(cluster["items"])
Extended(target_items, items) == target_items \o items

RECURSIVE MergeFrom(_, _, _, _)
MergeFrom(fuzzy_clusters, i, merged_clusters, threshold) ==
    IF i > Len(fuzzy_clusters) THEN merged_clusters
    ELSE LET cluster == fuzzy_clusters[i]
             k == FirstSimilar(merged_clusters, cluster, threshold)
         IN  IF k # 0
             THEN MergeFrom(fuzzy_clusters, i + 1,
                            [merged_clusters EXCEPT ![k].items = Extended(@, cluster.items)],
                            threshold)
             ELSE MergeFrom(fuzzy_clusters, i + 1, Appended(merged_clusters, cluster),
                            threshold)

\* libs: which of rapidfuzz and sentence_transformers can be imported
_cluster_items(items, libs) ==
    IF ~libs.rapidfuzz THEN <<[items |-> items, _norm |-> <<>>]>>
    ELSE LET fuzzy_clusters == _cluster_by_fuzzy(items, FUZZY_SIM_THRESHOLD)
         IN  IF ~libs.sentence_transformers THEN fuzzy_clusters
             ELSE IF Len(fuzzy_clusters) <= 1 THEN fuzzy_clusters
             ELSE MergeFrom(fuzzy_clusters, 1, <<>>, EMBEDDING_SIM_THRESHOLD)

(***************************************************************************)
(* _summarize_cluster and _summarize_clusters                              *)
(***************************************************************************)
\* Python's float(value): whether it raises
FloatRaises(value) ==
    CASE value.t \in {"int", "nan", "inf"} -> FALSE
      [] value.t = "str" ->
            LET d == Strip(value.s) IN ~(d # <<>> /\ Range(d) \subseteq Digits)
      [] OTHER -> TRUE

FloatValue(value) ==
    IF value.t = "int" THEN value.n ELSE DecimalValue(Strip(value.s))

TextOf(value) == IF value.t = "str" THEN value.s ELSE <<>>

\* sorted(set) for sources that are single digits
RECURSIVE SortedSet(_)
SortedSet(S) ==
    IF S = {} THEN <<>>
    ELSE LET least == CHOOSE x \in S : \A y \in S : DigitValue(x[1]) <= DigitValue(y[1])
         IN  <<least>> \o SortedSet(S \ {least})

\* sorted({item["source"] for item in items if item["source"]})
Sources(items) ==
    SortedSet({items[i].source : i \in {j \in 1..Len(items) : items[j].source # <<>>}})

\* the summary of one cluster, or None
_summarize_cluster(items, reply) ==
    IF reply.kind = "raise" THEN None
    ELSE LET data == _safe_json_from_text(reply.parts)
         IN  IF data = None \/ data.empty THEN None
             ELSE IF data.priority_score.t # "absent" /\ FloatRaises(data.priority_score)
             THEN None
             ELSE [title |-> IF data.title.t = "absent"
                             THEN items[1].title ELSE TextOf(data.title),
                   summary |-> TextOf(data.summary),
                   short_summary |-> IF data.short_summary.t = "absent"
                                     THEN TextOf(data.summary)
                                     ELSE TextOf(data.short_summary),
                   priority_score |-> IF data.priority_score.t = "absent" THEN 0
                                      ELSE FloatValue(data.priority_score),
                   sources |-> Sources(items)]

RECURSIVE SummariesFrom(_, _, _)
SummariesFrom(clusters, replies, i) ==
    IF i > Len(clusters) THEN <<>>
    ELSE LET rest == SummariesFrom(clusters, replies, i + 1)
             summary == IF clusters[i].items = <<>> THEN None
                        ELSE _summarize_cluster(clusters[i].items, replies[i])
         IN  IF summary = None THEN rest ELSE <<summary>> \o rest

\* genai: whether google-genai can be imported
_summarize_clusters(clusters, genai, replies) ==
    IF ~genai THEN <<>> ELSE SummariesFrom(clusters, replies, 1)

(***************************************************************************)
(* _estimate_durations and _write_transcript                               *)
(***************************************************************************)
\* max(2.0, len(text) / 6.0)
EstimatedDuration(text) == Max(2 * Second, Len(text) * (Second \div 6))

_estimate_durations(segments) ==
    [i \in 1..Len(segments) |-> EstimatedDuration(segments[i].text)]

\* the lines _write_transcript writes
RECURSIVE TranscriptLines(_)
TranscriptLines(segments) ==
    IF segments = <<>> THEN <<>>
    ELSE LET text == Strip(Head(segments).text)
         IN  IF text = <<>> THEN TranscriptLines(Tail(segments))
             ELSE <<text>> \o TranscriptLines(Tail(segments))

(***************************************************************************)
(* maybe_generate_audio, one action for each step.  The configuration is   *)
(* read when the run starts; what the environment answers (a directory     *)
(* that cannot be created, a missing library, an LLM reply, a failed       *)
(* synthesis) is chosen at the step that meets it.                         *)
(***************************************************************************)
AudioResult(audio_path, chapters_path, generated) ==
    [audio_path |-> audio_path, chapters_path |-> chapters_path, generated |-> generated]

PublicResult(generated) == AudioResult("public_audio_path", "public_chapters_path", generated)

LOCAL_PROVIDERS == {"sherpa_onnx", "sherpa", "kokoro", "voxcpm_onnx"}

Configs ==
    [enabled : BOOLEAN, interval_hours : {0, 1}, key_set : BOOLEAN,
     provider : {"", "voxcpm_onnx", "hf_space"}, endpoint_set : BOOLEAN]

force_generate(files) ==
    \/ files.pub_audio = NoFile
    \/ files.pub_chapters = NoFile
    \/ files.pub_transcript = NoFile

\* time and mtime are in hours, the comparison is in seconds
_should_generate_audio(files, interval_hours, time) ==
    IF interval_hours <= 0 THEN TRUE
    ELSE IF files.pub_audio = NoFile THEN TRUE
    ELSE (time - files.mtime) * 3600 >= interval_hours * 3600

SkipsGeneration(files, interval_hours, time) ==
    ~force_generate(files) /\ ~_should_generate_audio(files, interval_hours, time)

MissingConfigKeyOnly(c) == ~c.key_set

MissingConfig(c) ==
    \/ ~c.key_set
    \/ c.provider \notin LOCAL_PROVIDERS /\ ~c.endpoint_set

\* the titles of report_data["stats"], with what the sentence model makes of each
TitleData ==
    {[title |-> <<"a">>, url |-> TRUE, source |-> <<"1">>, embedding |-> <<10, 0>>],
     [title |-> <<"A", "!">>, url |-> FALSE, source |-> <<"2">>, embedding |-> <<8, 6>>],
     [title |-> <<"b">>, url |-> TRUE, source |-> <<"1">>, embedding |-> <<6, 8>>],
     [title |-> <<" ">>, url |-> TRUE, source |-> <<"2">>, embedding |-> <<0, 10>>]}

Reports == SeqsUpTo(TitleData, MaxItems)

RECURSIVE _flatten_report_items(_)
_flatten_report_items(titles) ==
    IF titles = <<>> THEN <<>>
    ELSE IF Strip(Head(titles).title) = <<>> THEN _flatten_report_items(Tail(titles))
         ELSE <<[Head(titles) EXCEPT !.title = Strip(@)]>>
              \o _flatten_report_items(Tail(titles))

SummaryData(title, summary, short_summary, priority_score) ==
    [empty |-> FALSE, title |-> title, summary |-> summary,
     short_summary |-> short_summary, priority_score |-> priority_score]

SummaryReplies ==
    {[kind |-> "raise"],
     [kind |-> "text", parts |-> <<Prose>>],
     [kind |-> "text",
      parts |-> <<Object(SummaryData(JStr(<<"A">>), JStr(<<"L">>), JStr(<<"s">>), JInt(1)))>>],
     [kind |-> "text",
      parts |-> <<Prose, Object(SummaryData(Absent, JStr(<<"L">>), Absent, Absent))>>],
     [kind |-> "text",
      parts |-> <<Object(SummaryData(JStr(<<"A">>), JStr(<<"L">>), JStr(<<"s">>),
                                     JStr(<<"x">>)))>>]}

KeepIds(l) == [keep_ids |-> JList(l), items |-> Absent, other |-> FALSE]

PipelineDedupeReplies ==
    {[kind |-> "raise"],
     [kind |-> "text", parts |-> <<Object(KeepIds(<<JInt(0), JInt(1), JInt(2), JInt(3)>>))>>],
     [kind |-> "text", parts |-> <<Object(KeepIds(<<JInt(1)>>))>>],
     [kind |-> "text", parts |-> <<Object(KeepIds(<<JInf>>))>>]}

\* how long the TTS voice speaks a text: a second, and a second for every
\* five characters
SpokenDuration(text) == Second + Len(text) * (Second \div 5)

\* _probe_duration: 0.0 without ffprobe
_probe_duration(spoken, ffprobe) == IF ffprobe THEN spoken ELSE 0

RECURSIVE HttpAudioUntilFailure(_, _, _)
HttpAudioUntilFailure(segments, ok, i) ==
    IF i > Len(segments) THEN <<>>
    ELSE IF segments[i].text = <<>> THEN HttpAudioUntilFailure(segments, ok, i + 1)
         ELSE IF i \notin ok THEN <<>>
         ELSE <<i>> \o HttpAudioUntilFailure(segments, ok, i + 1)

\* the segments of _synthesize_segments_http whose request succeeded
RECURSIVE HttpAudio(_, _, _)
HttpAudio(segments, ok, i) ==
    IF i > Len(segments) THEN <<>>
    ELSE IF segments[i].text = <<>> \/ i \notin ok THEN HttpAudio(segments, ok, i + 1)
         ELSE <<i>> \o HttpAudio(segments, ok, i + 1)

\* the finally block closes the session however the try block ends
SessionAfterTryClosedOnSuccess(how, s) == IF how = "success" THEN "closed" ELSE s

SessionAfterTry(how, s) == "closed"

EmptyResultIgnored(value) == FALSE

\* "if not summaries", "if not segments": the stage produced nothing
EmptyResult(value) == value = <<>>

\* a return before the try block
ReturnBefore(value, printed) ==
    /\ result' = Returned(value)
    /\ logs' = logs + printed
    /\ pc' = "returned"

\* a return from the try block, or the except block
Exit(how, value, printed) ==
    /\ result' = Returned(value)
    /\ logs' = logs + printed
    /\ session' = SessionAfterTry(how, session)
    /\ pc' = "returned"

Started(stage) == IF stage \in Range(trace) THEN trace ELSE Append(trace, stage)

\* a call of maybe_generate_audio, elapsed hours after the one before
Call(c, elapsed) ==
    /\ pc \in {"idle", "returned"}
    /\ runs < MaxRuns
    /\ now + elapsed <= MaxTime
    /\ now' = now + elapsed
    /\ runs' = runs + 1
    /\ cfg' = c
    /\ pre' = fs
    /\ session' = "none"
    /\ result' = Pending
    /\ logs' = 0
    /\ trace' = <<>>
    /\ calls' = NoCalls
    /\ st' = FreshLocals
    /\ pc' = "enabled"
    /\ UNCHANGED <<input, output, fs>>

CheckEnabled ==
    /\ pc = "enabled"
    /\ IF ~cfg.enabled
       THEN ReturnBefore(None, 0)
       ELSE pc' = "mkdir" /\ UNCHANGED <<result, logs>>
    /\ UNCHANGED <<input, output, cfg, fs, pre, now, runs, session, trace, calls, st>>

MakeDirs ==
    /\ pc = "mkdir"
    /\ \E created \in BOOLEAN :
         IF created
         THEN pc' = "interval" /\ UNCHANGED result
         ELSE pc' = "returned" /\ result' = Raised("OSError")
    /\ UNCHANGED <<input, output, cfg, fs, pre, now, runs, session, logs, trace, calls, st>>

IntervalCheck ==
    /\ pc = "interval"
    /\ IF SkipsGeneration(fs, cfg.interval_hours, now)
       THEN ReturnBefore(PublicResult(FALSE), 1)
       ELSE pc' = "config" /\ UNCHANGED <<result, logs>>
    /\ UNCHANGED <<input, output, cfg, fs, pre, now, runs, session, trace, calls, st>>

CheckConfig ==
    /\ pc = "config"
    /\ IF MissingConfig(cfg)
       THEN ReturnBefore(None, 1)
       ELSE pc' = "flatten" /\ UNCHANGED <<result, logs>>
    /\ UNCHANGED <<input, output, cfg, fs, pre, now, runs, session, trace, calls, st>>

Flatten ==
    /\ pc = "flatten"
    /\ \E report \in Reports :
         LET items == _flatten_report_items(report)
         IN  IF items = <<>>
             THEN ReturnBefore(None, 1) /\ UNCHANGED st
             ELSE /\ st' = [st EXCEPT !.items = Some(items)]
                  /\ pc' = "session"
                  /\ UNCHANGED <<result, logs>>
    /\ UNCHANGED <<input, output, cfg, fs, pre, now, runs, session, trace, calls>>

OpenSession ==
    /\ pc = "session"
    /\ session' = "open"
    /\ pc' = "fetch"
    /\ UNCHANGED <<input, output, cfg, fs, pre, now, runs, result, logs, trace, calls, st>>

\* _enrich_items_with_content: one GET through the session for each item with a url
Fetch ==
    /\ pc = "fetch"
    /\ trace' = Started("fetch")
    /\ calls' = [calls EXCEPT !.net =
                    @ + Cardinality({i \in 1..Len(st.items.v) : st.items.v[i].url})]
    /\ pc' = "cluster"
    /\ UNCHANGED <<input, output, cfg, fs, pre, now, runs, session, result, logs, st>>

Cluster ==
    /\ pc = "cluster"
    /\ trace' = Started("cluster")
    /\ \E libs \in [rapidfuzz : BOOLEAN, sentence_transformers : BOOLEAN] :
         st' = [st EXCEPT !.clusters = Some(_cluster_items(st.items.v, libs)),
                          !.items = Unset]
    /\ pc' = "summarise"
    /\ UNCHANGED <<input, output, cfg, fs, pre, now, runs, session, result, logs, calls>>

Summarise ==
    /\ pc = "summarise"
    /\ trace' = Started("summarise")
    /\ \E genai \in BOOLEAN, replies \in [1..Len(st.clusters.v) -> SummaryReplies] :
         LET clusters == st.clusters.v
             summaries == _summarize_clusters(clusters, genai, replies)
             asked == [i \in 1..Len(clusters) |->
                          IF genai /\ clusters[i].items # <<>> THEN 1 ELSE 0]
         IN  /\ calls' = [calls EXCEPT !.llm = @ + SumFirst(asked, Len(clusters))]
             /\ st' = [st EXCEPT !.summaries = Some(summaries), !.clusters = Unset,
                                 !.asked = Some(asked)]
             /\ IF EmptyResult(summaries)
                THEN Exit("early", None, 1)
                ELSE pc' = "build" /\ UNCHANGED <<result, logs, session>>
    /\ UNCHANGED <<input, output, cfg, fs, pre, now, runs>>

\* _build_script_segments and the first two _write_transcript calls
BuildScript ==
    /\ pc = "build"
    /\ trace' = Started("build")
    /\ LET segments == _build_script_segments(st.summaries.v)
       IN  IF EmptyResult(segments)
           THEN Exit("early", None, 1) /\ UNCHANGED <<fs, st>>
           ELSE /\ st' = [st EXCEPT !.segments = Some(segments)]
                /\ fs' = [fs EXCEPT !.pub_transcript = File(runs, "script"),
                                    !.out_transcript = File(runs, "script")]
                /\ pc' = "dedupe"
                /\ UNCHANGED <<result, logs, session>>
    /\ UNCHANGED <<input, output, cfg, pre, now, runs, calls>>

\* _dedupe_transcript_segments and the two _write_transcript calls after it;
\* google-genai was importable at the summarise stage, so it is here
Dedupe ==
    /\ pc = "dedupe"
    /\ trace' = Started("dedupe")
    /\ \E enabled \in BOOLEAN, reply \in PipelineDedupeReplies :
         LET segments == st.segments.v
             deduped == _dedupe_transcript_segments(segments, enabled, TRUE, reply)
             asked == enabled /\ Len(segments) >= 3 /\ Len(DedupeItems(segments, 1)) >= 3
         IN  /\ calls' = [calls EXCEPT !.dedupe = @ + (IF asked THEN 1 ELSE 0)]
             /\ IF deduped.exc # "none"
                THEN /\ Exit("except", None, 1)
                     /\ st' = [FreshLocals EXCEPT !.raised = deduped.exc]
                     /\ UNCHANGED fs
                ELSE /\ st' = [st EXCEPT !.segments = Some(deduped.value)]
                     /\ fs' = [fs EXCEPT !.pub_transcript = File(runs, "deduped"),
                                         !.out_transcript = File(runs, "deduped")]
                     /\ pc' = "synthesise"
                     /\ UNCHANGED <<result, logs, session>>
    /\ UNCHANGED <<input, output, cfg, pre, now, runs>>

\* what _synthesize_segments returns: how many audio files, the segments
\* (1-based) spoken in them in order, and the durations list
Synthesised(files, spoken, durations) ==
    [files |-> files, spoken |-> spoken, durations |-> durations]

\* _synthesize_segments_http: ok is the set of segments whose request succeeds
_synthesize_segments_http(segments, ok, ffprobe) ==
    LET spoken == HttpAudio(segments, ok, 1)
    IN  Synthesised(Len(spoken), spoken,
                    [k \in 1..Len(spoken) |->
                        _probe_duration(SpokenDuration(segments[spoken[k]].text), ffprobe)])

\* _synthesize_segments_voxcpm_onnx in batch mode
_synthesize_segments_voxcpm_onnx(segments, outcome) ==
    LET texts == DedupeItems(segments, 1)
    IN  IF outcome = "unconfigured" \/ texts = <<>> \/ outcome = "failed"
        THEN Synthesised(0, <<>>, <<>>)
        ELSE Synthesised(1, [k \in 1..Len(texts) |-> texts[k] + 1],
                         _estimate_durations(segments))

\* the files _synthesize_segments left in the segments directory:
\* segment_NNN.* by segment, or voxcpm_batch.wav (0)
SegmentFiles(made, batch) ==
    IF batch THEN (IF made.files = 0 THEN {} ELSE {0}) ELSE Range(made.spoken)

\* _synthesize_segments_hf_space for an endpoint that names a space: ok is
\* the set of segments the event stream answers with audio
_synthesize_segments_hf_space(segments, ok, ffprobe) ==
    _synthesize_segments_http(segments, ok, ffprobe)

\* _synthesize_segments_gradio: gradio_client is whether it can be imported
_synthesize_segments_gradio(segments, gradio_client, ok, ffprobe) ==
    IF ~gradio_client THEN Synthesised(0, <<>>, <<>>)
    ELSE _synthesize_segments_http(segments, ok, ffprobe)

\* whether _synthesize_segments falls back from the event stream to the
\* gradio client
FallsBack(segments, provider, env) ==
    /\ provider = "hf_space"
    /\ _synthesize_segments_hf_space(segments, env.ok, env.ffprobe).files = 0

\* env: what the TTS backends do in this run
_synthesize_segments(segments, provider, env) ==
    IF provider = "voxcpm_onnx"
    THEN _synthesize_segments_voxcpm_onnx(segments, env.outcome)
    ELSE IF provider = "hf_space"
    THEN IF FallsBack(segments, provider, env)
         THEN _synthesize_segments_gradio(segments, env.gradio_client, env.ok_gradio,
                                          env.ffprobe)
         ELSE _synthesize_segments_hf_space(segments, env.ok, env.ffprobe)
    ELSE _synthesize_segments_http(segments, env.ok, env.ffprobe)

\* the segments whose synthesis succeeded in the backend that answered
Succeeded(segments, provider, env) ==
    IF provider = "voxcpm_onnx" THEN {}
    ELSE IF FallsBack(segments, provider, env)
    THEN (IF env.gradio_client THEN env.ok_gradio ELSE {})
    ELSE env.ok

\* how many times each segment was submitted to a TTS backend
Submissions(segments, provider, env) ==
    [i \in 1..Len(segments) |->
        IF provider = "voxcpm_onnx"
        THEN (IF env.outcome = "unconfigured" \/ Strip(segments[i].text) = <<>>
              THEN 0 ELSE 1)
        ELSE IF segments[i].text = <<>> THEN 0
        ELSE IF provider = "hf_space"
        THEN 1 + (IF FallsBack(segments, provider, env) /\ env.gradio_client THEN 1 ELSE 0)
        ELSE 1]

\* the TTS requests made: one for a batch, one for each submission otherwise
Requests(segments, provider, env) ==
    LET submitted == Submissions(segments, provider, env)
    IN  IF provider = "voxcpm_onnx"
        THEN (IF \E i \in 1..Len(segments) : submitted[i] > 0 THEN 1 ELSE 0)
        ELSE SumFirst(submitted, Len(segments))

\* what the backends of the configured provider can do with n segments: the
\* fields a provider never consults are held at one value; the gradio
\* client, consulted only after the event stream gave nothing, answers every
\* segment or none; a machine without ffprobe is met with the HTTP backend
SynthesisEnvs(n, provider) ==
    LET batch == provider = "voxcpm_onnx"
        stream == provider = "hf_space"
    IN  {env \in [ok : IF batch THEN {{}} ELSE SUBSET (1..n),
                  ffprobe : IF batch \/ stream THEN {TRUE} ELSE BOOLEAN,
                  outcome : IF batch THEN {"unconfigured", "failed", "ok"} ELSE {"ok"},
                  gradio_client : IF stream THEN BOOLEAN ELSE {TRUE},
                  ok_gradio : IF stream THEN {{}, 1..n} ELSE {{}}] :
            (env.ok # {} \/ ~env.gradio_client) => env.ok_gradio = {}}

Synthesise ==
    /\ pc = "synthesise"
    /\ trace' = Started("synthesise")
    /\ \E env \in SynthesisEnvs(Len(st.segments.v), cfg.provider) :
         LET segments == st.segments.v
             made == _synthesize_segments(segments, cfg.provider, env)
         IN  /\ calls' = [calls EXCEPT !.tts = @ + Requests(segments, cfg.provider, env)]
             /\ st' = [st EXCEPT !.audio = Some(made),
                                 !.succeeded = Some(Succeeded(segments, cfg.provider, env)),
                                 !.submitted = Some(Submissions(segments, cfg.provider, env)),
                                 !.probed = Some(env.ffprobe),
                                 !.segment_files =
                                     Some(SegmentFiles(made, cfg.provider = "voxcpm_onnx")),
                                 !.durations = Some(made.durations)]
             /\ IF made.files = 0
                THEN Exit("early", None, 1)
                ELSE pc' = "concat" /\ UNCHANGED <<result, logs, session>>
    /\ UNCHANGED <<input, output, cfg, fs, pre, now, runs>>

RemovedOnFailure(files, outcome) == IF outcome = "ok" THEN files ELSE {}

\* _concat_audio reads the segment files and removes none
AfterConcat(files, outcome) == files

\* _concat_audio; ffmpeg runs with -y, so a failing ffmpeg may leave a
\* partial file at the output path
Concat ==
    /\ pc = "concat"
    /\ trace' = Started("assemble")
    /\ \E outcome \in {"no_ffmpeg", "failed", "ok"} :
         IF outcome = "ok"
         THEN /\ st' = [st EXCEPT !.assembled = Some(TRUE),
                                  !.segment_files = Some(AfterConcat(@.v, outcome))]
              /\ fs' = [fs EXCEPT !.out_audio = File(runs, "audio")]
              /\ pc' = "chapters"
              /\ UNCHANGED <<result, logs, session>>
         ELSE /\ st' = [st EXCEPT !.assembled = Some(FALSE),
                                  !.segment_files = Some(AfterConcat(@.v, outcome))]
              /\ Exit("early", None, 1)
              /\ \E partial \in BOOLEAN :
                    fs' = IF outcome = "failed" /\ partial
                          THEN [fs EXCEPT !.out_audio = File(runs, "partial")]
                          ELSE fs
    /\ UNCHANGED <<input, output, cfg, pre, now, runs, calls>>

\* the estimate for an empty durations list, _build_chapters, _write_chapters
WriteChapters ==
    /\ pc = "chapters"
    /\ LET durations == IF st.durations.v = <<>>
                        THEN _estimate_durations(st.segments.v) ELSE st.durations.v
       IN  st' = [st EXCEPT !.durations = Some(durations),
                            !.chapters = Some(_build_chapters(st.segments.v, durations))]
    /\ fs' = [fs EXCEPT !.out_chapters = File(runs, "chapters")]
    /\ pc' = "publish_audio"
    /\ UNCHANGED <<input, output, cfg, pre, now, runs, session, result, logs, trace, calls>>

\* shutil.copyfile(output_audio_path, public_audio_path)
PublishAudio ==
    /\ pc = "publish_audio"
    /\ fs' = [fs EXCEPT !.pub_audio = fs.out_audio, !.mtime = now]
    /\ pc' = "publish_chapters"
    /\ UNCHANGED <<input, output, cfg, pre, now, runs, session, result, logs, trace, calls,
                   st>>

\* shutil.copyfile(output_chapters_path, public_chapters_path) and the return
PublishChapters ==
    /\ pc = "publish_chapters"
    /\ fs' = [fs EXCEPT !.pub_chapters = fs.out_chapters]
    /\ Exit("success", PublicResult(TRUE), 0)
    /\ UNCHANGED <<input, output, cfg, pre, now, runs, trace, calls, st>>

\* the stage a position of the try block belongs to
StageAt(at) ==
    CASE at = "cluster" -> "cluster"
      [] at = "build" -> "build"
      [] at = "synthesise" -> "synthesise"
      [] OTHER -> "assemble"

\* an exception inside the try block: a library call of the clusterer, a
\* file that cannot be written, a directory that cannot be created; the except
\* block reads none of the locals of the try block
StageRaises ==
    /\ pc \in {"cluster", "build", "synthesise", "concat", "chapters", "publish_audio",
               "publish_chapters"}
    /\ trace' = Started(StageAt(pc))
    /\ st' = [FreshLocals EXCEPT !.raised = "Exception"]
    /\ Exit("except", None, 1)
    /\ UNCHANGED <<input, output, cfg, fs, pre, now, runs, calls>>

Init == input = [fn |-> "maybe_generate_audio"] /\ output = Pending /\ PipelineIdle

Next ==
    \/ \E c \in Configs, elapsed \in 0..MaxTime : Call(c, elapsed)
    \/ CheckEnabled
    \/ MakeDirs
    \/ IntervalCheck
    \/ CheckConfig
    \/ Flatten
    \/ OpenSession
    \/ Fetch
    \/ Cluster
    \/ Summarise
    \/ BuildScript
    \/ Dedupe
    \/ Synthesise
    \/ Concat
    \/ WriteChapters
    \/ PublishAudio
    \/ PublishChapters
    \/ StageRaises

Spec == Init /\ [][Next]_vars

(***************************************************************************)
(* Properties of maybe_generate_audio.                                     *)
(***************************************************************************)
Finished == pc = "returned"

StageOrder ==
    <<"fetch", "cluster", "summarise", "build", "dedupe", "synthesise", "assemble">>

IsPrefix(s, t) == Len(s) <= Len(t) /\ \A i \in 1..Len(s) : s[i] = t[i]

(***************************************************************************)
(* C2: maybe_generate_audio never propagates an exception to its caller:   *)
(* whichever step fails, directory creation included, the call ends by     *)
(* returning None or an AudioResult.                                       *)
(***************************************************************************)
C2_NeverPropagates ==
    Finished =>
        /\ result.exc = "none"
        /\ result.value \in {None, PublicResult(TRUE), PublicResult(FALSE)}

(***************************************************************************)
(* C3: every network session maybe_generate_audio opens is closed before   *)
(* it returns, on every exit path: success, an early return after an       *)
(* empty stage result, and an exception in any stage.                      *)
(***************************************************************************)
C3_SessionClosed ==
    /\ Finished => session \in {"none", "closed"}
    /\ (Finished /\ trace # <<>>) => session = "closed"

\* a run that ended in the except block, its session closed
C3_Witness ==
    /\ Finished
    /\ st.raised # "none"
    /\ trace # <<>>
    /\ session = "closed"

(***************************************************************************)
(* C4: the stages run in the order fetch, cluster, summarise, build        *)
(* script, deduplicate, synthesise, assemble, and a stage that fails (no   *)
(* summaries, empty script, no audio segment produced, concatenation       *)
(* failed) makes the run return None without starting any later stage.     *)
(***************************************************************************)
NoSummaries == st.summaries = Some(<<>>)

EmptyScript ==
    /\ st.summaries # Unset
    /\ "build" \in Range(trace)
    /\ st.segments = Unset
    /\ st.raised = "none"

NoAudio == st.audio # Unset /\ st.audio.v.files = 0

ConcatFailed == st.assembled = Some(FALSE)

StoppedAfter(n) ==
    /\ Finished
    /\ result = Returned(None)
    /\ trace = SubSeq(StageOrder, 1, n)

C4_StageOrder ==
    /\ IsPrefix(trace, StageOrder)
    /\ NoSummaries => StoppedAfter(3)
    /\ EmptyScript => StoppedAfter(4)
    /\ NoAudio => StoppedAfter(6)
    /\ ConcatFailed =>
         /\ StoppedAfter(7)
         /\ fs.out_chapters = pre.out_chapters
         /\ fs.pub_audio = pre.pub_audio
         /\ fs.pub_chapters = pre.pub_chapters

\* the synthesiser produced no audio file: the run ended there
C4_Witness ==
    /\ NoAudio
    /\ Finished
    /\ result = Returned(None)
    /\ trace = SubSeq(StageOrder, 1, 6)

(***************************************************************************)
(* C5: maybe_generate_audio returns an AudioResult with generated=false,   *)
(* without any fetch, LLM or TTS call and without writing any artifact,    *)
(* exactly when audio is enabled, the three public files exist,            *)
(* INTERVAL_HOURS is positive and the public audio is younger than         *)
(* INTERVAL_HOURS; every AudioResult with generated=true comes from a run  *)
(* that assembled a new audio file in this call.                           *)
(***************************************************************************)
C5_IntervalSkip ==
    Finished =>
        /\ (cfg.enabled /\ SkipsGeneration(pre, cfg.interval_hours, now))
              <=> result = Returned(PublicResult(FALSE))
        /\ result = Returned(PublicResult(FALSE)) => calls = NoCalls /\ fs = pre
        /\ result = Returned(PublicResult(TRUE)) =>
              /\ st.assembled = Some(TRUE)
              /\ fs.out_audio = File(runs, "audio")
              /\ fs.pub_audio = File(runs, "audio")

(***************************************************************************)
(* C6 as stated: when the configuration is missing (GEMINI_API_KEY empty,  *)
(* or the provider is not a local engine and no TTS endpoint is set), a    *)
(* call that returns returns None after logging one reason, before any     *)
(* network request, LLM call or TTS call, and leaves the existing audio,   *)
(* chapters and transcript files unchanged.                                *)
(***************************************************************************)
ConfigurationMissing ==
    /\ cfg # NoConfig
    /\ cfg.enabled
    /\ \/ ~cfg.key_set
       \/ cfg.provider \notin {"sherpa_onnx", "sherpa", "kokoro", "voxcpm_onnx"}
          /\ ~cfg.endpoint_set

RECURSIVE AudioPosition(_, _, _, _)
AudioPosition(segments, spoken, i, k) ==
    IF k > Len(spoken) THEN 0
    ELSE (IF spoken[k] < i THEN SpokenDuration(segments[spoken[k]].text) ELSE 0)
         + AudioPosition(segments, spoken, i, k + 1)

C9_ChaptersMatchAudio ==
    (Finished /\ result = Returned(PublicResult(TRUE))) =>
        LET segs == st.segments.v
            spoken == st.audio.v.spoken
            chapters == st.chapters.v
            idx == Chaptered(segs, Len(segs))
        IN  /\ fs.pub_chapters = File(runs, "chapters")
            /\ Len(chapters) = Cardinality(idx)
            /\ \A i \in idx :
                 LET k == Cardinality({j \in idx : j <= i})
                 IN  /\ chapters[k].title = segs[i].chapter.title
                     /\ IsRounded2(chapters[k].start, AudioPosition(segs, spoken, i, 1))

(***************************************************************************)
(* Inputs of the script builder for the choice between the long and the    *)
(* short summary: up to MaxRanked summaries, with or without each text.    *)
(***************************************************************************)
RankedSummary(summary, short_summary, title, priority_score) ==
    [title |-> title, summary |-> summary, short_summary |-> short_summary,
     priority_score |-> priority_score, sources |-> <<>>]

RankedSummaries ==
    {RankedSummary(t[1], t[2], t[3], score) :
        t \in {<<<<"L">>, <<"s">>, <<"A">>>>, <<<<>>, <<"s">>, <<"A">>>>,
               <<<<"L">>, <<>>, <<"A">>>>, <<<<>>, <<>>, <<"A">>>>,
               <<<<>>, <<>>, <<>>>>},
        score \in 0..1}

RankedInputs == [fn : {"build"}, summaries : SeqsUpTo(RankedSummaries, MaxRanked)]

InitRanked == input \in RankedInputs /\ output = Pending /\ PipelineIdle

SpecRanked == InitRanked /\ [][NextScript]_vars

(***************************************************************************)
(* C11: with n summaries, the first max(1, ceil(0.3 * n)) summaries of the *)
(* sorted order use their long summary as segment text and all others      *)
(* their short summary; a summary whose selected text is empty falls back  *)
(* to its other summary and then to its title, and is skipped only when    *)
(* all three are empty.                                                    *)
(***************************************************************************)
\* the least h with h >= 0.3 * n
Ceil30Percent(n) == CHOOSE h \in 0..n : 10 * h >= 3 * n /\ 10 * (h - 1) < 3 * n

\* the text the claim gives the summary at position idx of the sorted order
ClaimedText(s, idx, n) ==
    LET high == idx <= Max(1, Ceil30Percent(n))
        selected == IF high THEN s.summary ELSE s.short_summary
        other == IF high THEN s.short_summary ELSE s.summary
    IN  IF selected # <<>> THEN selected
        ELSE IF other # <<>> THEN other
        ELSE s.title

C11_LongAndShortSummaries ==
    (input.fn = "build" /\ output # Pending /\ input.summaries # <<>>) =>
        LET sorted == SortByPriority(input.summaries)
            n == Len(sorted)
            spoken == {idx \in 1..n : HasText(sorted[idx])}
        IN  /\ Len(output.value) = Cardinality(spoken) + 2
            /\ \A idx \in spoken :
                 LET j == Cardinality({k \in spoken : k <= idx})
                 IN  output.value[j + 1].text = ClaimedText(sorted[idx], idx, n)

\* four summaries with both texts: two long summaries, then two short ones
C11_Witness ==
    /\ input.fn = "build" /\ output # Pending
    /\ Len(input.summaries) = 4
    /\ \A i \in 1..4 : input.summaries[i].summary # <<>>
                       /\ input.summaries[i].short_summary # <<>>
    /\ Len(output.value) = 6
    /\ output.value[2].text = <<"L">>
    /\ output.value[3].text = <<"L">>
    /\ output.value[4].text = <<"s">>
    /\ output.value[5].text = <<"s">>

(***************************************************************************)
(* Inputs of the clusterer: up to MaxTitles items, each with a title, the  *)
(* embedding the sentence model gives it (a unit vector, in tenths) and    *)
(* its position in the input, which tells equal items apart.               *)
(***************************************************************************)
ClusterTitles == {<<"a">>, <<"a", "b">>, <<"b">>, <<"A", "!">>}

Embeddings == {<<10, 0>>, <<8, 6>>, <<6, 8>>, <<0, 10>>}

Positioned(titles, embeddings) ==
    [i \in 1..Len(titles) |->
        [title |-> titles[i], embedding |-> embeddings[i], pos |-> i]]

ClusterItems(n) ==
    UNION {{Positioned(titles, embeddings) :
               titles \in [1..k -> ClusterTitles], embeddings \in [1..k -> Embeddings]} :
           k \in 0..n}

\* items told apart by their titles only, for the fuzzy pass
FuzzyItems(n) ==
    UNION {{Positioned(titles, [i \in 1..k |-> <<10, 0>>]) :
               titles \in [1..k -> ClusterTitles]} : k \in 0..n}

\* the calls with up to n items
ClusterInputs(n) ==
    [fn : {"fuzzy"}, items : FuzzyItems(n), threshold : {60, FUZZY_SIM_THRESHOLD}]
    \cup [fn : {"cluster"}, items : ClusterItems(n),
          libs : [rapidfuzz : BOOLEAN, sentence_transformers : BOOLEAN]]

InitCluster == input \in ClusterInputs(MaxTitles) /\ output = Pending /\ PipelineIdle

FuzzyCall ==
    /\ input.fn = "fuzzy"
    /\ output = Pending
    /\ output' = Returned(_cluster_by_fuzzy(input.items, input.threshold))
    /\ UNCHANGED <<input, pipeline>>

ClusterCall ==
    /\ input.fn = "cluster"
    /\ output = Pending
    /\ output' = Returned(_cluster_items(input.items, input.libs))
    /\ UNCHANGED <<input, pipeline>>

NextCluster == FuzzyCall \/ ClusterCall

SpecCluster == InitCluster /\ [][NextCluster]_vars

\* the positions of the input items a cluster holds, in the cluster's order
Members(cluster) == [k \in 1..Len(cluster.items) |-> cluster.items[k].pos]

\* the cluster that holds the item at input position i, or 0
ClusterOf(clusters, i) ==
    LET holds == {k \in 1..Len(clusters) : i \in Range(Members(clusters[k]))}
    IN  IF holds = {} THEN 0 ELSE CHOOSE k \in holds : TRUE

\* ratio(a, b) >= threshold for the normalized titles of two input items
Similar(a, b, threshold) ==
    RatioAtLeast(_normalize_title(a.title), _normalize_title(b.title), threshold)

Fuzzied == input.fn = "fuzzy" /\ output # Pending

(***************************************************************************)
(* C12 as stated: for all item pairs (a, b) with ratio(a, b) >= threshold, *)
(* _cluster_by_fuzzy places a and b in the same cluster, whatever the      *)
(* order in which the items are scanned.                                   *)
(***************************************************************************)
C12_Original ==
    Fuzzied =>
        \A i, j \in 1..Len(input.items) :
            Similar(input.items[i], input.items[j], input.threshold) =>
                ClusterOf(output.value, i) = ClusterOf(output.value, j)

(***************************************************************************)
(* C12 as amended: _cluster_by_fuzzy places a and b in the same cluster,   *)
(* whatever the scan order, when their normalized titles are equal; for a  *)
(* pair with ratio(a, b) >= threshold it does so when a is the first item  *)
(* of its cluster, b is scanned after a and no cluster created before a's  *)
(* has a representative with ratio >= threshold to b.  Other pairs with    *)
(* ratio(a, b) >= threshold may be separated, depending on the scan order. *)
(***************************************************************************)
C12_SameCluster ==
    Fuzzied =>
        LET items == input.items
            clusters == output.value
        IN  \A i, j \in 1..Len(items) :
              /\ _normalize_title(items[i].title) = _normalize_title(items[j].title)
                    => ClusterOf(clusters, i) = ClusterOf(clusters, j)
              /\ ( /\ i < j
                   /\ Similar(items[i], items[j], input.threshold)
                   /\ ClusterOf(clusters, i) # 0
                   /\ Members(clusters[ClusterOf(clusters, i)])[1] = i
                   /\ \A m \in 1..(ClusterOf(clusters, i) - 1) :
                         ~RatioAtLeast(_normalize_title(items[j].title),
                                       clusters[m]._norm, input.threshold) )
                    => ClusterOf(clusters, i) = ClusterOf(clusters, j)

\* "a", "b", "ab" at threshold 60: "ab" is similar to both and joins the
\* cluster "a" started, the earlier one
C12_Witness ==
    /\ Fuzzied
    /\ input.threshold = 60
    /\ Len(input.items) = 3
    /\ input.items[1].title = <<"a">>
    /\ input.items[2].title = <<"b">>
    /\ input.items[3].title = <<"a", "b">>
    /\ Len(output.value) = 2
    /\ Members(output.value[1]) = <<1, 3>>

(***************************************************************************)
(* C19: _cluster_by_fuzzy walks the items in input order and puts each     *)
(* item into the earliest-created cluster whose stored representative has  *)
(* ratio >= threshold with the item's normalized title; if none matches it *)
(* creates a new cluster whose representative is that item's normalized    *)
(* title; a cluster's representative never changes after creation.         *)
(***************************************************************************)
Increasing(s) == \A k \in 1..(Len(s) - 1) : s[k] < s[k + 1]

C19_GreedyFirstMatch ==
    Fuzzied =>
        LET items == input.items
            clusters == output.value
            Matches(i, m) == RatioAtLeast(_normalize_title(items[i].title),
                                          clusters[m]._norm, input.threshold)
        IN  /\ \A i \in 1..Len(items) : ClusterOf(clusters, i) # 0
            /\ \A k \in 1..Len(clusters) :
                 /\ clusters[k].items # <<>>
                 /\ Increasing(Members(clusters[k]))
                 /\ \A n \in 1..Len(clusters[k].items) :
                       clusters[k].items[n] = items[Members(clusters[k])[n]]
                 /\ clusters[k]._norm = _normalize_title(clusters[k].items[1].title)
                 /\ \A m \in 1..(k - 1) :
                       /\ Members(clusters[m])[1] < Members(clusters[k])[1]
                       /\ Range(Members(clusters[m])) \cap Range(Members(clusters[k])) = {}
            /\ \A i \in 1..Len(items) :
                 LET k == ClusterOf(clusters, i)
                 IN  /\ Members(clusters[k])[1] # i => Matches(i, k)
                     /\ \A m \in 1..(k - 1) : ~Matches(i, m)

\* "ab", "b", "a" at threshold 60: "b" joins the cluster of "ab", and "a"
\* is compared with the representative "ab", not with "b"
C19_Witness ==
    /\ Fuzzied
    /\ input.threshold = 60
    /\ Len(input.items) = 3
    /\ input.items[1].title = <<"a", "b">>
    /\ input.items[2].title = <<"b">>
    /\ input.items[3].title = <<"a">>
    /\ Len(output.value) = 1
    /\ output.value[1]._norm = <<"a", "b">>
    /\ Members(output.value[1]) = <<1, 2, 3>>

(***************************************************************************)
(* C20: the clusters returned by _cluster_items, after the fuzzy pass and  *)
(* after semantic merging, are ordered by the input position of the        *)
(* first-seen item of each cluster: for clusters C before D in the result, *)
(* the earliest input item of C precedes the earliest input item of D.     *)
(***************************************************************************)
Earliest(cluster) ==
    CHOOSE p \in Range(Members(cluster)) : \A q \in Range(Members(cluster)) : p <= q

C20_FirstSeenOrder ==
    (input.fn = "cluster" /\ output # Pending) =>
        LET clusters == output.value
        IN  /\ \A i \in 1..Len(input.items) : ClusterOf(clusters, i) # 0
            /\ \A c, d \in 1..Len(clusters) :
                  (c < d /\ clusters[c].items # <<>> /\ clusters[d].items # <<>>)
                     => Earliest(clusters[c]) < Earliest(clusters[d])

\* three fuzzy clusters, the third merged into the first: the result holds
\* the clusters of items 1 and 3, then the cluster of item 2
C20_Witness ==
    /\ input.fn = "cluster" /\ output # Pending
    /\ input.libs = [rapidfuzz |-> TRUE, sentence_transformers |-> TRUE]
    /\ Len(input.items) = 3
    /\ Len(output.value) = 2
    /\ Members(output.value[1]) = <<1, 3>>
    /\ Members(output.value[2]) = <<2>>

(***************************************************************************)
(* Inputs of the summarizer: up to MaxClusters clusters and what           *)
(* generate_content does for each.                                         *)
(***************************************************************************)
SummaryItem(title, source) ==
    [title |-> title, url |-> TRUE, source |-> source, embedding |-> <<10, 0>>]

SummaryClusters ==
    {[items |-> <<>>, _norm |-> <<>>],
     [items |-> <<SummaryItem(<<"a">>, <<"1">>)>>, _norm |-> <<"a">>],
     [items |-> <<SummaryItem(<<"b">>, <<"2">>), SummaryItem(<<"B">>, <<"1">>)>>,
      _norm |-> <<"b">>]}

EmptyObject ==
    [empty |-> TRUE, title |-> Absent, summary |-> Absent, short_summary |-> Absent,
     priority_score |-> Absent]

ClusterReplies ==
    SummaryReplies
    \cup {[kind |-> "text", parts |-> <<Braces>>],
          [kind |-> "text", parts |-> <<Object(EmptyObject)>>],
          [kind |-> "text",
           parts |-> <<Object(SummaryData(JStr(<<"A">>), JStr(<<"L">>), JStr(<<"s">>),
                                          JNull))>>]}

SummariseInputs ==
    UNION {[fn : {"summarise"}, clusters : [1..k -> SummaryClusters], genai : BOOLEAN,
            replies : [1..k -> ClusterReplies]] : k \in 0..MaxClusters}

InitSummarise == input \in SummariseInputs /\ output = Pending /\ PipelineIdle

SummariseCall ==
    /\ input.fn = "summarise"
    /\ output = Pending
    /\ output' = Returned(_summarize_clusters(input.clusters, input.genai, input.replies))
    /\ UNCHANGED <<input, pipeline>>

NextSummarise == SummariseCall

SpecSummarise == InitSummarise /\ [][NextSummarise]_vars

(***************************************************************************)
(* C13: _summarize_clusters returns the summaries of exactly those         *)
(* non-empty clusters whose LLM call succeeded and whose reply parsed as a *)
(* JSON object, in cluster order; a cluster whose call raises or whose     *)
(* reply does not parse is dropped without affecting the other clusters.   *)
(***************************************************************************)
ParsedAsObject(reply) == reply.kind = "text" /\ _safe_json_from_text(reply.parts) # None

C13_SummariesOfParsedReplies ==
    (input.fn = "summarise" /\ output # Pending /\ input.genai) =>
        LET clusters == input.clusters
            summarised == {i \in 1..Len(clusters) :
                              /\ clusters[i].items # <<>>
                              /\ ParsedAsObject(input.replies[i])}
        IN  /\ Len(output.value) = Cardinality(summarised)
            /\ \A i \in summarised :
                 LET j == Cardinality({k \in summarised : k <= i})
                 IN  output.value[j].sources = Sources(clusters[i].items)

(***************************************************************************)
(* C14: in a per-segment synthesis backend a segment whose synthesis fails *)
(* is skipped and synthesis continues with the next segment: the returned  *)
(* audio paths are those of exactly the segments that succeeded, in        *)
(* segment order, and the run is not aborted as long as at least one       *)
(* segment succeeded.                                                      *)
(***************************************************************************)
PerSegment == st.audio # Unset /\ cfg.provider \notin {"voxcpm_onnx"}

C15_ConcatFailure ==
    ConcatFailed =>
        /\ Finished
        /\ result = Returned(None)
        /\ st.chapters = Unset
        /\ fs.out_chapters = pre.out_chapters
        /\ fs.pub_audio = pre.pub_audio
        /\ fs.pub_chapters = pre.pub_chapters
        /\ fs.mtime = pre.mtime
        /\ st.segment_files.v = SegmentFiles(st.audio.v, cfg.provider = "voxcpm_onnx")
        /\ st.segment_files.v # {}

\* a second run whose concatenation failed: the public files of the first
\* run and the two segment files of this run are still there
C15_Witness ==
    /\ ConcatFailed
    /\ Finished
    /\ pre.pub_audio = File(1, "audio")
    /\ fs.pub_audio = File(1, "audio")
    /\ fs.pub_chapters = File(1, "chapters")
    /\ Cardinality(st.segment_files.v) = 2

\* ---------------------------------------------------------------------
\* C16: within one run nothing is sent twice: every cluster goes to the
\* LLM at most once, the dedupe request is made at most once, and every
\* script segment is submitted to a TTS backend at most once.
C16_NoRetry ==
    /\ calls.dedupe <= 1
    /\ st.asked # Unset => \A i \in DOMAIN st.asked.v : st.asked.v[i] <= 1
    /\ st.submitted # Unset => \A i \in DOMAIN st.submitted.v : st.submitted.v[i] <= 1

(***************************************************************************)
(* The link-preview cache of the HTML report: _get_preview_image with the  *)
(* cache and the quota it mutates, under a clock that render after render  *)
(* moves on.  input holds the cache, the quota and the clock, with the     *)
(* fetch limit of the current render and the fetches made in it; output    *)
(* holds the last call: its arguments, what was there before, its answer.  *)
(***************************************************************************)
MaxQuota == 2

MaxWeeks == 2

_PREVIEW_CACHE_TTL_SECONDS == 60 * 60 * 24 * 7

PreviewUrls == {"u", "v"}

\* what _fetch_preview_image can answer: no image, or the image of the page
PreviewPages == {None, Some(<<"p">>)}

\* the seconds between two calls
PreviewElapsed == {0, _PREVIEW_CACHE_TTL_SECONDS - 1, _PREVIEW_CACHE_TTL_SECONDS}

DigitChar(d) ==
    CASE d = 0 -> "0" [] d = 1 -> "1" [] d = 2 -> "2" [] d = 3 -> "3" [] d = 4 -> "4"
      [] d = 5 -> "5" [] d = 6 -> "6" [] d = 7 -> "7" [] d = 8 -> "8" [] d = 9 -> "9"

\* Python's str(n) of a natural number
RECURSIVE str(_)
str(n) == IF n < 10 THEN <<DigitChar(n)>> ELSE Append(str(n \div 10), DigitChar(n % 10))

\* now - cached_at < _PREVIEW_CACHE_TTL_SECONDS, with the bound itself taken
\* for fresh
FreshAtTTL(at, cached_at) == at - cached_at <= _PREVIEW_CACHE_TTL_SECONDS

\* now - cached_at < _PREVIEW_CACHE_TTL_SECONDS
Fresh(at, cached_at) == at - cached_at < _PREVIEW_CACHE_TTL_SECONDS

ExhaustedBelowZero(quota) == quota < 0

\* quota["remaining"] <= 0
Exhausted(quota) == quota <= 0

\* the state a call leaves and the answer it gives: page is what fetching
\* the URL would answer
_get_preview_image(url, page, cache, quota, at) ==
    LET cached == cache[url]
        cached_at == int(JStr(cached.ts)).value
        hit == cached # None /\ Fresh(at, cached_at)
    IN  IF hit
        THEN [value |-> IF cached.image = <<>> THEN None ELSE Some(cached.image),
              fetched |-> FALSE, cache |-> cache, quota |-> quota]
        ELSE IF Exhausted(quota)
        THEN [value |-> None, fetched |-> FALSE, cache |-> cache, quota |-> quota]
        ELSE [value |-> page, fetched |-> TRUE,
              cache |-> [cache EXCEPT ![url] =
                            [image |-> IF page = None THEN <<>> ELSE page.v, ts |-> str(at)]],
              quota |-> quota - 1]

InitPreview ==
    /\ \E limit \in (-1)..MaxQuota :
         input = [fn |-> "_get_preview_image", cache |-> [u \in PreviewUrls |-> None],
                  quota |-> limit, now |-> 0, limit |-> limit, fetches |-> 0]
    /\ output = Pending
    /\ PipelineIdle

\* a call of _get_preview_image, elapsed seconds after the one before
GetPreviewImage(url, page, elapsed) ==
    /\ input.fn = "_get_preview_image"
    /\ input.now + elapsed <= MaxWeeks * _PREVIEW_CACHE_TTL_SECONDS
    /\ LET at == input.now + elapsed
           call == _get_preview_image(url, page, input.cache, input.quota, at)
       IN  /\ input' = [input EXCEPT !.cache = call.cache, !.quota = call.quota, !.now = at,
                                     !.fetches = @ + (IF call.fetched THEN 1 ELSE 0)]
           /\ output' = [url |-> url, page |-> page, now |-> at, cache |-> input.cache,
                         quota |-> input.quota, fetched |-> call.fetched,
                         value |-> call.value]
    /\ UNCHANGED pipeline

\* the next render_html_content: the cache it loads is the one the render
\* before saved, its quota is the fetch limit again
Render(limit) ==
    /\ input.fn = "_get_preview_image"
    /\ output # Pending
    /\ input' = [input EXCEPT !.quota = limit, !.limit = limit, !.fetches = 0]
    /\ output' = Pending
    /\ UNCHANGED pipeline

NextPreview ==
    \/ \E url \in PreviewUrls, page \in PreviewPages, elapsed \in PreviewElapsed :
         GetPreviewImage(url, page, elapsed)
    \/ \E limit \in (-1)..MaxQuota : Render(limit)

SpecPreview == InitPreview /\ [][NextPreview]_vars

\* ---------------------------------------------------------------------
\* C17: _get_preview_image answers from the cache, without fetching, exactly
\* when the URL has an entry younger than the TTL of seven days: it returns
\* the entry's image, None for an empty one.  An absent or expired entry is
\* fetched again when quota remains, and the entry then holds the fetched
\* image (or the empty string) and the current timestamp; with no quota
\* left the answer is None and not the expired image.
C17_CacheAnswers ==
    (input.fn = "_get_preview_image" /\ output # Pending) =>
        LET cached == output.cache[output.url]
            young == /\ cached # None
                     /\ output.now - DecimalValue(cached.ts) < 60 * 60 * 24 * 7
        IN  /\ young =>
                 /\ ~output.fetched
                 /\ output.value = (IF cached.image = <<>> THEN None
                                     ELSE Some(cached.image))
                 /\ input.cache = output.cache
            /\ (~young /\ output.quota > 0) =>
                 /\ output.fetched
                 /\ output.value = output.page
                 /\ input.cache =
                      [output.cache EXCEPT ![output.url] =
                          [image |-> IF output.page = None THEN <<>> ELSE output.page.v,
                           ts |-> str(output.now)]]
            /\ (~young /\ output.quota <= 0) =>
                 /\ ~output.fetched
                 /\ output.value = None

\* an entry exactly seven days old, with an image, is fetched again
C17_Witness ==
    /\ input.fn = "_get_preview_image"
    /\ output # Pending
    /\ output.cache[output.url] # None
    /\ output.cache[output.url].image # <<>>
    /\ output.now - DecimalValue(output.cache[output.url].ts) = 60 * 60 * 24 * 7
    /\ output.fetched
    /\ input.cache[output.url].ts = str(output.now)

(***************************************************************************)
(* The heartbeat logger: a Heartbeat object under a clock.  input holds    *)
(* the object's fields and the clock (seconds, in steps of HeartbeatStep); *)
(* output holds the last two lines printed, each with the time and the     *)
(* method that printed it, and the last call.                              *)
(***************************************************************************)
MaxTicks == 6

HeartbeatStep == 20

DEFAULT_HEARTBEAT_SECONDS == 60

\* the values of one environment variable
HeartbeatRaw == {<<>>, <<"4", "0">>, <<" ", "2", "0">>, <<"0">>, <<"x">>}

HeartbeatEnvs ==
    [TREND_RADAR_HEARTBEAT_SECONDS : HeartbeatRaw,
     TRENRADAR_HEARTBEAT_SECONDS : {<<>>, <<"2", "0">>}]

_parse_positive_int(value) ==
    LET parsed == int(JStr(value))
    IN  IF parsed.exc # "none" THEN None
        ELSE IF parsed.value <= 0 THEN None
        ELSE Some(parsed.value)

get_heartbeat_seconds(env) ==
    LET first == Strip(env.TREND_RADAR_HEARTBEAT_SECONDS)
        second == Strip(env.TRENRADAR_HEARTBEAT_SECONDS)
    IN  IF first # <<>> /\ _parse_positive_int(first) # None
        THEN _parse_positive_int(first).v
        ELSE IF second # <<>> /\ _parse_positive_int(second) # None
        THEN _parse_positive_int(second).v
        ELSE DEFAULT_HEARTBEAT_SECONDS

\* Heartbeat.__init__ at the time at
Heartbeat(interval_seconds, env, at) ==
    [fn |-> "Heartbeat",
     interval_seconds |-> IF interval_seconds = None \/ interval_seconds.v = 0
                          THEN get_heartbeat_seconds(env)
                          ELSE interval_seconds.v,
     _last_emit |-> at,
     clock |-> at]

\* Heartbeat.maybe_emit at the time at: whether it prints, and _last_emit after
maybe_emit(self, at) ==
    IF at - self._last_emit >= self.interval_seconds
    THEN [printed |-> TRUE, _last_emit |-> at]
    ELSE [printed |-> FALSE, _last_emit |-> self._last_emit]

forceKeepingLastEmit(self, at) == [printed |-> TRUE, _last_emit |-> self._last_emit]

\* Heartbeat.force at the time at
force(self, at) == [printed |-> TRUE, _last_emit |-> at]

\* the last two lines printed, after a call
Printed(lines, call, by, at) ==
    IF ~call.printed THEN lines
    ELSE LET all == Append(lines, [at |-> at, by |-> by])
         IN  IF Len(all) > 2 THEN Tail(all) ELSE all

InitHeartbeat ==
    /\ \E interval_seconds \in {None, Some(0), Some(HeartbeatStep), Some(2 * HeartbeatStep)},
          env \in HeartbeatEnvs :
         input = Heartbeat(interval_seconds, env, 0)
    /\ output = [lines |-> <<>>, call |-> None]
    /\ PipelineIdle

MaybeEmit(elapsed) ==
    /\ input.fn = "Heartbeat"
    /\ input.clock + elapsed <= MaxTicks * HeartbeatStep
    /\ LET at == input.clock + elapsed
           call == maybe_emit(input, at)
       IN  /\ input' = [input EXCEPT !._last_emit = call._last_emit, !.clock = at]
           /\ output' = [lines |-> Printed(output.lines, call, "maybe_emit", at),
                         call |-> [by |-> "maybe_emit", at |-> at, printed |-> call.printed]]
    /\ UNCHANGED pipeline

Force(elapsed) ==
    /\ input.fn = "Heartbeat"
    /\ input.clock + elapsed <= MaxTicks * HeartbeatStep
    /\ LET at == input.clock + elapsed
           call == force(input, at)
       IN  /\ input' = [input EXCEPT !._last_emit = call._last_emit, !.clock = at]
           /\ output' = [lines |-> Printed(output.lines, call, "force", at),
                         call |-> [by |-> "force", at |-> at, printed |-> call.printed]]
    /\ UNCHANGED pipeline

NextHeartbeat ==
    \/ \E ticks \in 0..3 : MaybeEmit(ticks * HeartbeatStep)
    \/ \E ticks \in 0..3 : Force(ticks * HeartbeatStep)

SpecHeartbeat == InitHeartbeat /\ [][NextHeartbeat]_vars

\* ---------------------------------------------------------------------
\* C18: the heartbeat is rate-limited.  A line printed by maybe_emit comes
\* at least interval_seconds after the line printed before it, whichever
\* method printed that one, and at least interval_seconds after the
\* construction when it is the first line; force always prints, and the
\* interval starts again from it.
C18_RateLimited ==
    input.fn = "Heartbeat" =>
        LET lines == output.lines
            call == output.call
        IN  /\ (Len(lines) = 2 /\ lines[2].by = "maybe_emit") =>
                  lines[2].at - lines[1].at >= input.interval_seconds
            /\ (Len(lines) = 1 /\ lines[1].by = "maybe_emit") =>
                  lines[1].at - 0 >= input.interval_seconds
            /\ (call # None /\ call.by = "force") =>
                  /\ call.printed
                  /\ lines[Len(lines)] = [at |-> call.at, by |-> "force"]
            /\ (call # None /\ call.by = "maybe_emit" /\ call.printed) =>
                  lines[Len(lines)] = [at |-> call.at, by |-> "maybe_emit"]
            /\ (call # None /\ call.by = "maybe_emit" /\ lines # <<>>
                  /\ call.at - lines[Len(lines)].at > 0
                  /\ call.at - lines[Len(lines)].at < input.interval_seconds) =>
                  ~call.printed

\* maybe_emit prints a line exactly interval_seconds after a forced one
C18_Witness ==
    /\ input.fn = "Heartbeat"
    /\ Len(output.lines) = 2
    /\ output.lines[1].by = "force"
    /\ output.lines[1].at > 0
    /\ output.lines[2].by = "maybe_emit"
    /\ output.lines[2].at - output.lines[1].at = input.interval_seconds

\* ---------------------------------------------------------------------
\* C21: when the reply for a cluster parses as a JSON object,
\* _summarize_cluster returns a summary: a missing title is the title of the
\* cluster's first item, a missing short_summary is the long summary, and
\* priority_score is a float, 0 when it is missing or cannot be coerced.
C21_SummaryOfEveryObject ==
    (/\ input.fn = "summarise"
     /\ output # Pending
     /\ input.genai
     /\ \A i \in 1..Len(input.clusters) :
          input.clusters[i].items # <<>> /\ ParsedAsObject(input.replies[i])) =>
        /\ Len(output.value) = Len(input.clusters)
        /\ \A i \in 1..Len(input.clusters) :
             LET data == _safe_json_from_text(input.replies[i].parts)
                 summary == output.value[i]
             IN  /\ data.title.t = "absent" =>
                       summary.title = input.clusters[i].items[1].title
                 /\ data.short_summary.t = "absent" =>
                       summary.short_summary = summary.summary
                 /\ summary.priority_score =
                       (IF data.priority_score.t = "absent" \/ FloatRaises(data.priority_score)
                        THEN 0 ELSE FloatValue(data.priority_score))

\* ---------------------------------------------------------------------
\* C22: when the reply yields a non-empty keep set, the deduplicator returns
\* the segments whose index is in the keep set, in their order, each with
\* the sanitized rewritten text where the reply gave one for its index and
\* its sanitized own text otherwise, the fixed fallback sentence standing in
\* for an empty text; when no index of the keep set is the index of a
\* segment, it returns the segments it was given.
C22_KeptSegments ==
    (/\ input.fn = "dedupe"
     /\ output # Pending
     /\ input.enabled /\ input.genai
     /\ NonEmptyTexts(input.segments) >= 3
     /\ input.reply.kind = "text"
     /\ _safe_json_from_text(input.reply.parts) # None
     /\ ReadKeep(_safe_json_from_text(input.reply.parts)).exc = "none"
     /\ KeepSet(ReadKeep(_safe_json_from_text(input.reply.parts)).keep_ids, 1, {}).exc = "none"
     /\ KeepSet(ReadKeep(_safe_json_from_text(input.reply.parts)).keep_ids, 1, {}).set # {}) =>
        LET segments == input.segments
            read == ReadKeep(_safe_json_from_text(input.reply.parts))
            keep_set == KeepSet(read.keep_ids, 1, {}).set
            kept == {i \in 1..Len(segments) : (i - 1) \in keep_set}
        IN  IF kept = {} THEN output = Returned(segments)
            ELSE /\ output.exc = "none"
                 /\ Len(output.value) = Cardinality(kept)
                 /\ \A i \in kept :
                      LET j == Cardinality({k \in kept : k <= i})
                          given == {k \in 1..Len(read.rewrites) : read.rewrites[k][1] = i - 1}
                          last == CHOOSE k \in given : \A m \in given : m <= k
                          source == IF given = {} THEN segments[i].text
                                    ELSE read.rewrites[last][2]
                          clean == _sanitize_chinese_text(source)
                      IN  /\ output.value[j].chapter = segments[i].chapter
                          /\ output.value[j].text # <<>>
                          /\ output.value[j].text =
                               (IF clean = <<>> THEN FALLBACK_TEXT ELSE clean)

\* a segment is dropped, and one kept with a rewritten text that is empty
\* once sanitized gets the fallback sentence
C22_Witness ==
    /\ input.fn = "dedupe"
    /\ output # Pending
    /\ output.exc = "none"
    /\ Len(output.value) < Len(input.segments)
    /\ input.reply.kind = "text"
    /\ _safe_json_from_text(input.reply.parts) # None
    /\ ReadKeep(_safe_json_from_text(input.reply.parts)).exc = "none"
    /\ ReadKeep(_safe_json_from_text(input.reply.parts)).rewrites # <<>>
    /\ \E j \in 1..Len(output.value) : output.value[j].text = FALLBACK_TEXT
    /\ \A i \in 1..Len(input.segments) : _sanitize_chinese_text(input.segments[i].text) # <<>>

\* ---------------------------------------------------------------------
\* C23: whenever the backend cannot report the true durations of the
\* synthesized segments (no ffprobe, or a batch backend with one file), the
\* durations the chapters are built from are the estimates
\* max(2.0, character_count / 6.0) of the segments.
C23_EstimatedDurations ==
    (/\ st.chapters # Unset
     /\ cfg.provider = "voxcpm_onnx" \/ st.probed = Some(FALSE)) =>
        /\ st.durations.v = _estimate_durations(st.segments.v)
        /\ st.chapters.v = _build_chapters(st.segments.v, _estimate_durations(st.segments.v))

(***************************************************************************)
(* _read_hf_space_event: the lines of the event stream as iter_lines gives *)
(* them, each with its field (the text before the first colon) and its     *)
(* stripped value, and the number of lines delivered before the stream     *)
(* ends or the connection fails.                                           *)
(***************************************************************************)
MaxLines == 4

EventLine(name) == [field |-> "event", value |-> name, json |-> FALSE]

\* a data line: its payload, and whether json.loads accepts it
DataLine(payload, json) == [field |-> "data", value |-> payload, json |-> json]

\* an empty line
BlankLine == [field |-> "", value |-> "", json |-> FALSE]

\* a line that starts with neither event: nor data:
CommentLine == [field |-> "comment", value |-> "ping", json |-> FALSE]

StreamLines ==
    {BlankLine, CommentLine, EventLine("complete"), EventLine("error"),
     EventLine("heartbeat"), DataLine("x", TRUE), DataLine("y", TRUE),
     DataLine("{", FALSE)}

\* delivered = -1: the GET or raise_for_status fails
EventInputs ==
    UNION {[fn : {"_read_hf_space_event"}, lines : [1..k -> StreamLines],
            delivered : (-1)..k] : k \in 0..MaxLines}

\* current_event after a line, were it reset by an empty line
CurrentEventResetByBlank(current_event, line) ==
    IF line.field = "" THEN "" ELSE IF line.field = "event" THEN line.value ELSE current_event

\* current_event after a line
CurrentEvent(current_event, line) ==
    IF line.field = "event" THEN line.value ELSE current_event

\* the loop over response.iter_lines from line i on; an exception of
\* json.loads or of the connection is caught and gives None
RECURSIVE ReadLines(_, _, _, _)
ReadLines(lines, delivered, i, current_event) ==
    IF i > delivered THEN None
    ELSE LET raw == lines[i]
         IN  IF raw.field = "data" /\ current_event = "complete"
             THEN (IF raw.json THEN Some(raw.value) ELSE None)
             ELSE IF raw.field = "data" /\ current_event = "error"
             THEN None
             ELSE ReadLines(lines, delivered, i + 1, CurrentEvent(current_event, raw))

_read_hf_space_event(lines, delivered) ==
    IF delivered < 0 THEN None ELSE ReadLines(lines, delivered, 1, "")

InitEvents == input \in EventInputs /\ output = Pending /\ PipelineIdle

ReadEventCall ==
    /\ input.fn = "_read_hf_space_event"
    /\ output = Pending
    /\ output' = Returned(_read_hf_space_event(input.lines, input.delivered))
    /\ UNCHANGED <<input, pipeline>>

NextEvents == ReadEventCall

SpecEvents == InitEvents /\ [][NextEvents]_vars

\* the lines read before the stream ended or failed
Delivered == 1..(IF input.delivered < 0 THEN 0 ELSE input.delivered)

\* the name of the last event line before line i, "" when there is none
Governing(i) ==
    LET named == {j \in 1..(i - 1) : input.lines[j].field = "event"}
    IN  IF named = {} THEN ""
        ELSE input.lines[CHOOSE j \in named : \A k \in named : k <= j].value

\* the data lines read under an event named complete or error
TerminalLines ==
    {i \in Delivered : input.lines[i].field = "data" /\ Governing(i) \in {"complete", "error"}}

\* C24 as stated: the reader returns the parsed JSON of the data line of the
\* first event named complete, returns None as soon as an event named error
\* is received, ignores the data of every other event, and returns None when
\* the stream ends or fails before a terminal event.
C24_Original ==
    (input.fn = "_read_hf_space_event" /\ output # Pending) =>
        LET errors == {i \in Delivered : input.lines[i] = EventLine("error")}
            completes == {i \in Delivered :
                             input.lines[i].field = "data" /\ Governing(i) = "complete"}
        IN  /\ (errors # {} /\ \A c \in completes : \E e \in errors : e < c) =>
                  output.value = None
            /\ (errors = {} /\ completes = {}) => output.value = None

\* ---------------------------------------------------------------------
\* C24: the reader decides at the first data line read under an event line
\* naming complete or error, the event line in force being the last one
\* read, whatever lines lie in between: under complete it returns the parsed
\* JSON of that data line (None when it is not JSON), under error it returns
\* None.  Data lines under any other event name, and event lines that no
\* data line follows, have no effect, and a stream that ends or fails before
\* such a data line gives None.
C24_TerminalEvent ==
    (input.fn = "_read_hf_space_event" /\ output # Pending) =>
        IF TerminalLines = {} THEN output.value = None
        ELSE LET first == CHOOSE i \in TerminalLines : \A k \in TerminalLines : i <= k
                 line == input.lines[first]
             IN  output.value = (IF Governing(first) = "complete" /\ line.json
                                 THEN Some(line.value) ELSE None)

\* a heartbeat with data, then complete and, after an empty line, its data
C24_Witness ==
    /\ input.fn = "_read_hf_space_event"
    /\ output = Returned(Some("y"))
    /\ input.lines = <<EventLine("heartbeat"), DataLine("x", TRUE), EventLine("complete"),
                       DataLine("y", TRUE)>>

(***************************************************************************)
(* _fetch_article_text: the body arrives in chunks of at most chunk_size   *)
(* bytes (sizes in KiB); the request fails at once, or after some chunks,  *)
(* or not at all.  The answer is given as the number of bytes converted to *)
(* text (0 for the empty string) with the number of bytes read.            *)
(***************************************************************************)
MaxChunks == 3

\* chunk_size=4096, in KiB
CHUNK_SIZE == 4

\* audio_cfg.get("FETCH_MAX_BYTES", 0), in KiB
FETCH_MAX_BYTES == 0

\* fails: -1 never; k >= 0: the connection raises once k chunks have arrived
\* (0: session.get or raise_for_status raises)
FetchInputs ==
    UNION {[fn : {"_fetch_article_text"}, chunks : [1..k -> 0..CHUNK_SIZE],
            max_bytes : {FETCH_MAX_BYTES, 1, CHUNK_SIZE, CHUNK_SIZE + 1, 2 * CHUNK_SIZE},
            fails : (-1)..k] : k \in 0..MaxChunks}

\* the loop over response.iter_content from chunk i on: the bytes read, and
\* whether the loop ended without an exception
RECURSIVE ReadChunks(_, _, _, _, _)
ReadChunks(chunks, fails, max_bytes, i, total) ==
    IF fails = i - 1 THEN [read |-> total, raised |-> TRUE]
    ELSE IF i > Len(chunks) THEN [read |-> total, raised |-> FALSE]
    ELSE IF chunks[i] = 0 THEN [read |-> total, raised |-> FALSE]
    ELSE IF max_bytes # 0 /\ total + chunks[i] >= max_bytes
    THEN [read |-> total + chunks[i], raised |-> FALSE]
    ELSE ReadChunks(chunks, fails, max_bytes, i + 1, total + chunks[i])

_fetch_article_text(chunks, fails, max_bytes) ==
    LET body == ReadChunks(chunks, fails, max_bytes, 1, 0)
    IN  [read |-> body.read, converted |-> IF body.raised THEN 0 ELSE body.read,
         raised |-> body.raised]

InitFetch == input \in FetchInputs /\ output = Pending /\ PipelineIdle

FetchCall ==
    /\ input.fn = "_fetch_article_text"
    /\ output = Pending
    /\ output' = Returned(_fetch_article_text(input.chunks, input.fails, input.max_bytes))
    /\ UNCHANGED <<input, pipeline>>

NextFetch == FetchCall

SpecFetch == InitFetch /\ [][NextFetch]_vars

\* ---------------------------------------------------------------------
\* C25: _fetch_article_text is bounded by the byte cap: for every page and
\* every configuration, the default FETCH_MAX_BYTES included, the body bytes
\* it reads and converts to text never exceed the cap, and a fetch that
\* fails gives the empty string and no exception.
C25_ByteCap ==
    (input.fn = "_fetch_article_text" /\ output # Pending) =>
        /\ output.exc = "none"
        /\ output.value.read <= input.max_bytes
        /\ output.value.converted <= input.max_bytes
        /\ output.value.raised => output.value.converted = 0

\* ---------------------------------------------------------------------
\* C26: the clusters _cluster_items returns are a partition of its input:
\* every input item is a member of exactly one cluster, exactly once, and
\* no cluster is empty when there is an input item.
C26_Partition ==
    (input.fn = "cluster" /\ output # Pending) =>
        LET clusters == output.value
            n == Len(input.items)
        IN  /\ \A i \in 1..n :
                 Cardinality({<<c, k>> \in (1..Len(clusters)) \X (1..n) :
                                 /\ k <= Len(clusters[c].items)
                                 /\ clusters[c].items[k] = input.items[i]}) = 1
            /\ \A c \in 1..Len(clusters) :
                 /\ Len(clusters[c].items) <= n
                 /\ n > 0 => clusters[c].items # <<>>
                 /\ \A k \in 1..Len(clusters[c].items) :
                      \E i \in 1..n : clusters[c].items[k] = input.items[i]

\* three items in two clusters: the semantic pass merged a fuzzy cluster
\* into an earlier one
C26_Witness ==
    /\ input.fn = "cluster"
    /\ output # Pending
    /\ input.libs.rapidfuzz /\ input.libs.sentence_transformers
    /\ Len(input.items) = 3
    /\ Len(_cluster_by_fuzzy(input.items, FUZZY_SIM_THRESHOLD)) = 3
    /\ Len(output.value) = 2

\* ---------------------------------------------------------------------
\* C27: after any sequence of runs, the public transcript, the public audio
\* file and the public chapters file come from the same run: the transcript
\* is the one of the script the public audio was synthesized from.
C27_PublicFilesOfOneRun ==
    (Finished /\ fs.pub_audio # NoFile) =>
        /\ fs.pub_transcript.run = fs.pub_audio.run
        /\ fs.pub_chapters.run = fs.pub_audio.run
        /\ fs.pub_transcript.content = "deduped"

\* ---------------------------------------------------------------------
\* C28: the script handed to synthesis, after deduplication, still begins
\* with the intro segment and ends with the outro segment, both without a
\* chapter, whatever keep set the LLM returned.
C28_IntroOutroKept ==
    (pc = "synthesise" /\ st.segments # Unset) =>
        LET segments == st.segments.v
        IN  /\ segments # <<>>
            /\ segments[1] = IntroSegment
            /\ segments[Len(segments)] = OutroSegment

\* ---------------------------------------------------------------------
\* C29: during one render the page fetches never exceed the fetch limit (a
\* limit below zero allows none): no call takes the remaining quota below
\* zero, a fresh cache hit consumes no quota, and with no quota left
\* _get_preview_image returns None for every URL without a fresh entry and
\* leaves the cache as it is.
C29_FetchQuota ==
    input.fn = "_get_preview_image" =>
        /\ input.fetches <= (IF input.limit < 0 THEN 0 ELSE input.limit)
        /\ input.quota = input.limit - input.fetches
        /\ input.limit >= 0 => input.quota >= 0
        /\ output # Pending =>
             LET cached == output.cache[output.url]
                 fresh == /\ cached # None
                          /\ output.now - DecimalValue(cached.ts) < _PREVIEW_CACHE_TTL_SECONDS
             IN  /\ fresh => input.quota = output.quota /\ ~output.fetched
                 /\ (~fresh /\ output.quota <= 0) =>
                       /\ output.value = None
                       /\ ~output.fetched
                       /\ input.cache = output.cache
                       /\ input.quota = output.quota

\* the limit of two is used up, and a third URL lookup without a fresh entry
\* is answered None
C29_Witness ==
    /\ input.fn = "_get_preview_image"
    /\ output # Pending
    /\ input.limit = 2
    /\ input.fetches = 2
    /\ output.quota = 0
    /\ output.cache[output.url] # None
    /\ output.cache[output.url].image # <<>>
    /\ output.value = None

\* ---------------------------------------------------------------------
\* C30: a run that does not return generated=true leaves the public audio
\* and the public chapters exactly as they were before it, and whenever the
\* two are replaced they are replaced together, by the files of one run.
C30_PublishedTogether ==
    /\ (Finished /\ result # Returned(PublicResult(TRUE))) =>
          /\ fs.pub_audio = pre.pub_audio
          /\ fs.pub_chapters = pre.pub_chapters
    /\ Finished => fs.pub_audio.run = fs.pub_chapters.run

====
